---- MODULE Spec2Model ----
(***************************************************************************)
(* SoulGain: the stack VM of src/soulgain/src/vm.rs together with the      *)
(* pieces it calls (memory.rs, intuition.rs, the event vocabulary of       *)
(* plasticity.rs).  The VM's run loop is modelled one loop iteration per   *)
(* step; every Rust method taking &mut self is an operator from a record   *)
(* of the VM's fields to the record after the call.                        *)
(***************************************************************************)
EXTENDS Integers, Sequences, FiniteSets, TLC

(***************************************************************************)
(* Bounds of the model.                                                    *)
(***************************************************************************)
MaxCycles == 8          \* largest cycle budget passed to run
MaxRuns == 2            \* number of consecutive run calls on one VM
MaxInitDepth == 2       \* depth of the operand stacks the probes start with

(***************************************************************************)
(* f64.  A finite value is w + f * 2^-30 with w and f of the same sign and *)
(* |f| < 2^30; such values are exactly representable in an f64 and their   *)
(* sums, differences, comparisons and roundings are exact.  The non-finite *)
(* values are NaN, +inf and -inf.                                          *)
(***************************************************************************)
Frac == 2^30
Half == 2^29
I64Max == 2^30 + (2^30 - 1)   \* stand-in for i64::MAX, the value a cast saturates to

Fin(w, f) == [k |-> "fin", w |-> w, f |-> f]
NumOf(i) == Fin(i, 0)
NaN == [k |-> "nan", w |-> 0, f |-> 0]
PInf == [k |-> "inf", w |-> 0, f |-> 0]
NInf == [k |-> "ninf", w |-> 0, f |-> 0]

is_finite(x) == x.k = "fin"
Abs(i) == IF i < 0 THEN -i ELSE i
Sign(x) == IF x.w > 0 \/ x.f > 0 THEN 1 ELSE IF x.w < 0 \/ x.f < 0 THEN -1 ELSE 0

\* w + f * 2^-30 brought back to the canonical form (same sign, |f| < 2^30)
Normalize(w, f) ==
    LET w1 == w + (IF f >= Frac THEN 1 ELSE IF f <= -Frac THEN -1 ELSE 0)
        f1 == IF f >= Frac THEN f - Frac ELSE IF f <= -Frac THEN f + Frac ELSE f
    IN  IF w1 > 0 /\ f1 < 0 THEN Fin(w1 - 1, f1 + Frac)
        ELSE IF w1 < 0 /\ f1 > 0 THEN Fin(w1 + 1, f1 - Frac)
        ELSE Fin(w1, f1)

\* f64::round: nearest integer, halves away from zero (finite argument)
Round(x) == IF x.f >= Half THEN x.w + 1 ELSE IF x.f <= -Half THEN x.w - 1 ELSE x.w

\* |round(x) - x| in units of 2^-30
RoundDist(x) == IF Abs(x.f) >= Half THEN Frac - Abs(x.f) ELSE Abs(x.f)

\* d * 2^-30 > 1e-9, for an integer d >= 0  (1e-9 is 1.07 units)
ExceedsTolerance(d) == d > Frac \div 1000000000

\* `x as i64`: truncation toward zero, NaN to 0, saturating
AsI64(x) ==
    CASE x.k = "fin" -> x.w
      [] x.k = "nan" -> 0
      [] x.k = "inf" -> I64Max
      [] x.k = "ninf" -> -I64Max

FLess(a, b) ==     \* a < b on f64, false when either is NaN
    CASE a.k = "nan" \/ b.k = "nan" -> FALSE
      [] a.k = "fin" /\ b.k = "fin" -> a.w < b.w \/ (a.w = b.w /\ a.f < b.f)
      [] a.k = "ninf" -> b.k # "ninf"
      [] b.k = "inf" -> a.k # "inf"
      [] OTHER -> FALSE

FEq(a, b) == a.k # "nan" /\ b.k # "nan" /\ a = b       \* f64 ==, NaN != NaN

FNeg(a) ==
    CASE a.k = "fin" -> Fin(-a.w, -a.f)
      [] a.k = "inf" -> NInf
      [] a.k = "ninf" -> PInf
      [] OTHER -> NaN

FAdd(a, b) ==
    CASE a.k = "nan" \/ b.k = "nan" -> NaN
      [] a.k = "fin" /\ b.k = "fin" -> Normalize(a.w + b.w, a.f + b.f)
      [] a.k = "fin" -> b
      [] b.k = "fin" -> a
      [] a.k = b.k -> a
      [] OTHER -> NaN

FSub(a, b) == FAdd(a, FNeg(b))

\* the product; exact for integer-valued operands, and for one integer-valued
\* operand when the scaled fraction stays below 2^30
FMul(a, b) ==
    CASE a.k = "nan" \/ b.k = "nan" -> NaN
      [] a.k = "fin" /\ b.k = "fin" ->
            IF a.f = 0 THEN Normalize(a.w * b.w, a.w * b.f)
            ELSE IF b.f = 0 THEN Normalize(a.w * b.w, b.w * a.f)
            ELSE Normalize(a.w * b.w, a.w * b.f + b.w * a.f)
      [] Sign(a) = 0 \/ Sign(b) = 0 -> NaN
      [] OTHER ->
            LET sa == IF a.k = "fin" THEN Sign(a) ELSE IF a.k = "inf" THEN 1 ELSE -1
                sb == IF b.k = "fin" THEN Sign(b) ELSE IF b.k = "inf" THEN 1 ELSE -1
            IN  IF sa * sb > 0 THEN PInf ELSE NInf

\* Rust's % on f64: the remainder has the sign of the dividend, x % 0 is NaN
TruncRem(i, j) == IF i >= 0 THEN i % Abs(j) ELSE -((-i) % Abs(j))
FAbs(a) == IF a.k = "fin" /\ Sign(a) < 0 THEN FNeg(a) ELSE a
RECURSIVE RemBySub(_, _)
RemBySub(a, b) == IF FLess(a, b) THEN a ELSE RemBySub(FSub(a, b), b)
FRem(a, b) ==
    CASE a.k # "fin" \/ b.k = "nan" -> NaN
      [] b.k # "fin" -> a
      [] Sign(b) = 0 -> NaN
      [] b.f = 0 -> Fin(TruncRem(a.w, b.w), a.f)
      [] Abs(a.w) <= 1 /\ Abs(b.w) <= 1 ->
            LET r == TruncRem(a.w * Frac + a.f, b.w * Frac + b.f)
            IN  Normalize(0, r)
      [] OTHER ->
            LET r == RemBySub(FAbs(a), FAbs(b))
            IN  IF Sign(a) < 0 THEN FNeg(r) ELSE r

(***************************************************************************)
(* UVal (types.rs is not among the sources; the variants, truthiness and   *)
(* equality follow the data model of the specification).  A string is a    *)
(* sequence of one-character strings.                                      *)
(***************************************************************************)
Nil == [t |-> "Nil", b |-> FALSE, n |-> NumOf(0), s |-> <<>>, o |-> 0]
Bool(b) == [t |-> "Bool", b |-> b, n |-> NumOf(0), s |-> <<>>, o |-> 0]
Number(n) == [t |-> "Number", b |-> FALSE, n |-> n, s |-> <<>>, o |-> 0]
String(s) == [t |-> "String", b |-> FALSE, n |-> NumOf(0), s |-> s, o |-> 0]
Object(h) == [t |-> "Object", b |-> FALSE, n |-> NumOf(0), s |-> <<>>, o |-> h]

is_truthy(v) ==
    CASE v.t = "Nil" -> FALSE
      [] v.t = "Bool" -> v.b
      [] v.t = "Number" -> is_finite(v.n) /\ Sign(v.n) # 0
      [] v.t = "String" -> v.s # <<>>
      [] v.t = "Object" -> TRUE

UValEq(a, b) ==
    /\ a.t = b.t
    /\ CASE a.t = "Nil" -> TRUE
         [] a.t = "Bool" -> a.b = b.b
         [] a.t = "Number" -> FEq(a.n, b.n)
         [] a.t = "String" -> a.s = b.s
         [] a.t = "Object" -> a.o = b.o

\* str::parse::<f64> on the alphabet of digits, '-' and letters: an optional
\* sign followed by at least one digit
Digits == <<"0", "1", "2", "3", "4", "5", "6", "7", "8", "9">>
DigitVal(c) == (CHOOSE i \in 1..10 : Digits[i] = c) - 1
IsDigit(c) == \E i \in 1..10 : Digits[i] = c
RECURSIVE DigitsValue(_, _)
DigitsValue(s, acc) ==
    IF s = <<>> THEN acc ELSE DigitsValue(Tail(s), 10 * acc + DigitVal(Head(s)))
ParseF64(s) ==     \* [ok, val]
    LET body == IF s # <<>> /\ Head(s) = "-" THEN Tail(s) ELSE s
        neg == s # <<>> /\ Head(s) = "-"
    IN  IF body # <<>> /\ \A i \in 1..Len(body) : IsDigit(body[i])
        THEN [ok |-> TRUE,
              val |-> NumOf(IF neg THEN -DigitsValue(body, 0) ELSE DigitsValue(body, 0))]
        ELSE [ok |-> FALSE, val |-> NaN]

(***************************************************************************)
(* Events and errors (plasticity.rs).                                      *)
(***************************************************************************)
StackUnderflow == [kind |-> "StackUnderflow", arg |-> 0]
InvalidOpcode(i) == [kind |-> "InvalidOpcode", arg |-> i]
InvalidJump(i) == [kind |-> "InvalidJump", arg |-> i]
ReturnStackUnderflow == [kind |-> "ReturnStackUnderflow", arg |-> 0]
InvalidEvolve(i) == [kind |-> "InvalidEvolve", arg |-> i]

OpcodeEvent(opcode, depth) == [ev |-> "Opcode", kind |-> "", arg |-> opcode, depth |-> depth]
MemoryRead == [ev |-> "MemoryRead", kind |-> "", arg |-> 0, depth |-> 0]
MemoryWrite == [ev |-> "MemoryWrite", kind |-> "", arg |-> 0, depth |-> 0]
Reward(i) == [ev |-> "Reward", kind |-> "", arg |-> i, depth |-> 0]
Error(e) == [ev |-> "Error", kind |-> e.kind, arg |-> e.arg, depth |-> 0]
NoEvent == [ev |-> "None", kind |-> "", arg |-> 0, depth |-> 0]

(***************************************************************************)
(* Opcodes (vm.rs).                                                        *)
(***************************************************************************)
SKILL_OPCODE_BASE == 1000
OpLiteral == 0
OpAdd == 1
OpSub == 2
OpMul == 3
OpEq == 5
OpStore == 6
OpLoad == 7
OpHalt == 8
OpGt == 9
OpNot == 10
OpJmp == 11
OpJmpIf == 12
OpCall == 13
OpRet == 14
OpIntuition == 15
OpReward == 16
OpEvolve == 17
OpSwap == 18
OpDup == 19
OpOver == 20
OpDrop == 21
OpAnd == 22
OpOr == 23
OpXor == 24
OpIsZero == 25
OpMod == 26
OpInc == 27
OpDec == 28
OpParse == 29

PrimitiveOps == (0..3) \cup (5..29)
from_i64(value) == IF value \in PrimitiveOps THEN [some |-> TRUE, op |-> value]
                   ELSE [some |-> FALSE, op |-> -1]

\* logic_of(op).stack_delta: the net change of the stack depth when the
\* inputs are present (logic_of is not among the sources; the table follows
\* the opcode contracts of the specification)
stack_delta(op) ==
    CASE op \in {OpLiteral, OpDup, OpOver} -> 1
      [] op \in {OpAdd, OpSub, OpMul, OpMod, OpEq, OpGt, OpAnd, OpOr, OpXor,
                 OpJmpIf, OpEvolve, OpDrop} -> -1
      [] op = OpStore -> -2
      [] OTHER -> 0

\* the number of operands an opcode pops (used by the static validation)
op_inputs(op) ==
    CASE op \in {OpAdd, OpSub, OpMul, OpMod, OpEq, OpGt, OpAnd, OpOr, OpXor,
                 OpStore, OpSwap, OpOver} -> 2
      [] op \in {OpNot, OpIsZero, OpInc, OpDec, OpParse, OpLoad, OpJmpIf,
                 OpEvolve, OpDup, OpDrop} -> 1
      [] OTHER -> 0

HasImmediate(op) == op \in {OpLiteral, OpJmp, OpJmpIf, OpCall}

(***************************************************************************)
(* The state: the fields of SoulGainVM, the channel to the plasticity      *)
(* worker, the locals of run, and history variables.                       *)
(***************************************************************************)
VARIABLES
    program,            \* Vec<f64>, cell i of the source is program[i + 1]
    stack,              \* Vec<UVal>
    call_stack,         \* Vec<usize>
    program_stack,      \* Vec<ProgramFrame>
    ip,
    memory,             \* MemorySystem.storage
    skills,             \* SkillLibrary.macros
    skill_meta,         \* IntuitionEngine.skill_meta
    deterministic_mode, \* IntuitionEngine.deterministic_mode
    last_event,
    trace,
    recent_opcodes,
    tick,
    total_reward,
    error_count,
    sent,               \* the batches handed to Plasticity::observe_batch, in order
    pc,                 \* "idle", "running" (inside run), "returned"
    cycles,             \* run's local counter
    max_cycles,         \* run's argument
    exit,               \* how the last run left its loop
    runs,               \* number of run calls so far
    recorded,           \* history: every event passed to record_event
    at_start,           \* history: the VM's fields when the current run was called
    last,               \* history: the loop iteration just executed
    origin,             \* history: the VM as constructed, before its first run
    runlog,             \* history: budget and exit of every run, Intuition's draws
    max_program_len,    \* Trainer.max_program_len
    goal,               \* the oracle and the input the caller passes to synthesize
    synth,              \* the arguments and locals of the synthesize call in progress
    tpc,                \* where the Trainer is: "idle", "searching", "drawing_id",
                        \* "panicked", "returned"
    result,             \* what the last synthesize call returned
    drawn,              \* the id generate_random_id drew last
    attempts,           \* history: the iterations the synthesize call has made
    tlog,               \* history: the calls and trials of the Trainer
    weights,            \* PersistentMemory.weights, in thousandths, by edge <<from, to>>
    channel,            \* the messages sent to the plasticity worker and not yet received
    senders,            \* the Plasticity handles (clones of the Sender) alive
    worker,             \* the worker thread: its position and the locals of its loop
    recent_events,      \* the worker's window of (event, time) pairs
    write_locked,       \* the worker holds the write lock of Plasticity.memory
    clock,              \* Instant::now(), in twelfths of WINDOW_S
    file,               \* the file save_to_file writes and load_from_file reads
    plog,               \* history: what the worker processed and the callers saw
    mlog                \* history: the last call on the MemorySystem and its result

vars == <<program, stack, call_stack, program_stack, ip, memory, skills, skill_meta,
          deterministic_mode, last_event, trace, recent_opcodes, tick, total_reward,
          error_count, sent, pc, cycles, max_cycles, exit, runs, recorded, at_start,
          last, origin, runlog, max_program_len, goal, synth, tpc, result, drawn,
          attempts, tlog, weights, channel, senders, worker, recent_events,
          write_locked, clock, file, plog, mlog>>

\* the Trainer's part of the state
tvars == <<max_program_len, goal, synth, tpc, result, drawn, attempts, tlog>>

\* Plasticity's part of the state
pvars == <<weights, channel, senders, worker, recent_events, write_locked, clock, file,
           plog>>

\* the VM as one record, the `self` of the methods below
Self ==
    [program |-> program, stack |-> stack, call_stack |-> call_stack,
     program_stack |-> program_stack, ip |-> ip, memory |-> memory, skills |-> skills,
     skill_meta |-> skill_meta, last_event |-> last_event, trace |-> trace,
     recent_opcodes |-> recent_opcodes, tick |-> tick, total_reward |-> total_reward,
     error_count |-> error_count, sent |-> sent, recorded |-> recorded,
     cycles |-> cycles, cont |-> TRUE, exit |-> "none"]

Cell(vm, i) == vm.program[i + 1]          \* program[i] of the source
Pop(s) == SubSeq(s, 1, Len(s) - 1)
Top(s) == s[Len(s)]
Min(a, b) == IF a < b THEN a ELSE b
Max(a, b) == IF a > b THEN a ELSE b

(***************************************************************************)
(* vm.rs: decode_opcode, record_event, record_error, flush_trace           *)
(***************************************************************************)
\* decode_opcode without the tolerance test
decode_opcode_no_tolerance(raw) ==
    IF ~is_finite(raw) THEN [ok |-> FALSE, op |-> -1, err |-> InvalidOpcode(-1)]
    ELSE [ok |-> TRUE, op |-> Round(raw), err |-> InvalidOpcode(Round(raw))]

decode_opcode(raw) ==
    IF ~is_finite(raw) THEN [ok |-> FALSE, op |-> -1, err |-> InvalidOpcode(-1)]
    ELSE LET rounded == Round(raw)
         IN  IF ExceedsTolerance(RoundDist(raw))
             THEN [ok |-> FALSE, op |-> -1, err |-> InvalidOpcode(rounded)]
             ELSE [ok |-> TRUE, op |-> rounded, err |-> InvalidOpcode(rounded)]

record_event(vm, event) ==
    [vm EXCEPT !.last_event = event,
               !.trace = Append(@, event),
               !.recorded = Append(@, event)]

flush_trace(vm) ==
    IF vm.trace = <<>> THEN vm
    ELSE [vm EXCEPT !.sent = Append(@, vm.trace), !.trace = <<>>]

record_error(vm, error) ==
    flush_trace(record_event([vm EXCEPT !.error_count = @ + 1], Error(error)))

push_recent_opcode(vm, opcode) ==
    LET q == IF Len(vm.recent_opcodes) >= 6 THEN Tail(vm.recent_opcodes)
             ELSE vm.recent_opcodes
    IN  [vm EXCEPT !.recent_opcodes = Append(q, opcode)]

(***************************************************************************)
(* memory.rs                                                               *)
(***************************************************************************)
\* quantize: (addr * 1e10).round() as i64.  Two distinct finite values of the
\* model are at least 2^-30 apart, so their products with 1e10 round to
\* distinct integers and the value itself serves as the key; a product
\* beyond i64::MAX (addr >= 922337204) saturates to one key.
QuantSat == 922337204
quantize(addr) ==
    IF ~is_finite(addr) THEN [some |-> FALSE, key |-> NumOf(0)]
    ELSE IF addr.w >= QuantSat THEN [some |-> TRUE, key |-> NumOf(QuantSat)]
    ELSE IF addr.w <= -QuantSat THEN [some |-> TRUE, key |-> NumOf(-QuantSat)]
    ELSE [some |-> TRUE, key |-> addr]

memory_read(mem, addr) ==
    LET q == quantize(addr)
    IN  IF q.some /\ q.key \in DOMAIN mem THEN [some |-> TRUE, val |-> mem[q.key]]
        ELSE [some |-> FALSE, val |-> Nil]

\* a write that keeps the value a cell already holds
memory_write_keeps(mem, addr, val) ==
    LET q == quantize(addr)
    IN  IF q.some
        THEN [ok |-> TRUE,
              mem |-> [k \in DOMAIN mem \cup {q.key} |-> IF k \in DOMAIN mem THEN mem[k] ELSE val]]
        ELSE [ok |-> FALSE, mem |-> mem]

memory_write(mem, addr, val) ==
    LET q == quantize(addr)
    IN  IF q.some
        THEN [ok |-> TRUE,
              mem |-> [k \in DOMAIN mem \cup {q.key} |-> IF k = q.key THEN val ELSE mem[k]]]
        ELSE [ok |-> FALSE, mem |-> mem]

(***************************************************************************)
(* intuition.rs.  Confidence is kept in hundredths, the reward average in  *)
(* thousandths, pattern matches in 1/300 and scores in millionths.         *)
(***************************************************************************)
NoTypes == <<"None", "None", "None">>

value_kind(v) == v.t

build_context(stk, recent) ==
    [depth_bucket |-> Min(Len(stk), 5),
     top_types |-> [i \in 1..3 |-> IF i <= Len(stk) THEN value_kind(stk[Len(stk) + 1 - i])
                                   ELSE "None"],
     recent_opcodes |-> recent]

DefaultMeta(skill_id) ==
    [skill_id |-> skill_id,
     min_depth |-> 0, max_depth |-> 5, required_top_types |-> NoTypes,
     attempts |-> 0, successes |-> 0, failures |-> 0, avg_reward_delta |-> 0,
     base_confidence |-> 50, last_used_tick |-> 0, times_used_recent_window |-> 0]

ensure_skill_known(meta, skill_id) ==
    IF skill_id \in DOMAIN meta THEN meta
    ELSE [k \in DOMAIN meta \cup {skill_id} |->
            IF k = skill_id THEN DefaultMeta(skill_id) ELSE meta[k]]

bootstrap_pattern_if_empty(meta, skill_id, ctx) ==
    LET m == ensure_skill_known(meta, skill_id)
    IN  IF m[skill_id].required_top_types = NoTypes
        THEN [m EXCEPT ![skill_id].required_top_types = ctx.top_types,
                       ![skill_id].min_depth = ctx.depth_bucket,
                       ![skill_id].max_depth = 5]
        ELSE m

Clamp(x, lo, hi) == IF x < lo THEN lo ELSE IF x > hi THEN hi ELSE x

pattern_match(ctx, m) ==       \* in 1/300
    LET depth_ok == ctx.depth_bucket >= m.min_depth /\ ctx.depth_bucket <= m.max_depth
        req == {i \in 1..3 : m.required_top_types[i] # "None"}
        hit == {i \in req : ctx.top_types[i] = m.required_top_types[i]}
        types == IF req = {} THEN 180 ELSE (180 * Cardinality(hit)) \div Cardinality(req)
    IN  Clamp((IF depth_ok THEN 120 ELSE 0) + types, 0, 300)

GateThreshold300 == 105        \* gate_threshold 0.35

applicability_score(m, now, pattern) ==      \* in millionths
    LET success_rate == (1000000 * m.successes) \div Max(1, m.attempts)
        normalized_reward == Clamp(m.avg_reward_delta * 10, -1000000, 1000000)
        recency_penalty == IF Max(now - m.last_used_tick, 0) <= 8 THEN 1000000 ELSE 0
        exploration_bonus == 1000000 \div (1 + m.attempts)
    IN  (45 * ((1000000 * pattern) \div 300)
         + 20 * success_rate
         + 15 * normalized_reward
         + 10 * (m.base_confidence * 10000)
         - 7 * recency_penalty
         + 3 * exploration_bonus) \div 100

\* the scored candidates of select_skill, after ensure_skill_known on each
\* the scored candidates without the gate on the pattern match
Scored_ungated(meta, ctx, candidates, now) ==
    {id \in candidates :
        LET m == IF id \in DOMAIN meta THEN meta[id] ELSE DefaultMeta(id)
            p == pattern_match(ctx, m)
        IN  applicability_score(m, now, p) > 0}

Scored(meta, ctx, candidates, now) ==
    {id \in candidates :
        LET m == IF id \in DOMAIN meta THEN meta[id] ELSE DefaultMeta(id)
            p == pattern_match(ctx, m)
        IN  p >= GateThreshold300 /\ applicability_score(m, now, p) > 0}

ScoreOf(meta, ctx, id, now) ==
    LET m == IF id \in DOMAIN meta THEN meta[id] ELSE DefaultMeta(id)
    IN  applicability_score(m, now, pattern_match(ctx, m))

\* the ids select_skill can return: in deterministic mode a candidate of
\* maximal score (the first in the iteration order of the map's keys, which
\* is not fixed); otherwise any scored candidate, as the generator draws
SelectableSkills(meta, det, ctx, candidates, now) ==
    LET sc == Scored(meta, ctx, candidates, now)
    IN  IF det
        THEN {id \in sc : \A o \in sc : ScoreOf(meta, ctx, o, now) <= ScoreOf(meta, ctx, id, now)}
        ELSE sc

RECURSIVE EnsureAll(_, _)
EnsureAll(meta, ids) ==
    IF ids = {} THEN meta
    ELSE LET id == CHOOSE x \in ids : TRUE
         IN  EnsureAll(ensure_skill_known(meta, id), ids \ {id})

update_after_execution(meta, skill_id, outcome) ==
    LET m0 == ensure_skill_known(meta, skill_id)
        m == m0[skill_id]
        conf1 == IF outcome.success THEN Clamp(m.base_confidence + 3, 5, 95)
                 ELSE Clamp(m.base_confidence - 4, 5, 95)
        conf2 == IF ~outcome.stack_match_after THEN Clamp(conf1 - 2, 5, 95) ELSE conf1
    IN  [m0 EXCEPT ![skill_id] =
            [m EXCEPT !.attempts = @ + 1,
                      !.successes = IF outcome.success THEN @ + 1 ELSE @,
                      !.failures = IF outcome.success THEN @ ELSE @ + 1,
                      !.base_confidence = conf2,
                      !.avg_reward_delta = (3 * @ + 1000 * outcome.reward_delta) \div 4,
                      !.last_used_tick = outcome.used_tick,
                      !.times_used_recent_window = @ + 1]]

(***************************************************************************)
(* vm.rs: restore_program, execute_skill                                   *)
(***************************************************************************)
\* restore_program that compares against the errors of the whole run
restore_program_lenient(vm) ==
    IF vm.program_stack # <<>>
    THEN LET frame == Top(vm.program_stack)
             inv == frame.skill_invocation
             meta == IF inv.some
                     THEN update_after_execution(vm.skill_meta, inv.skill_id,
                            [success |-> vm.error_count = 0,
                             reward_delta |-> vm.total_reward - inv.reward_before,
                             stack_match_after |-> Len(vm.stack) >= inv.expected_depth_min,
                             used_tick |-> vm.tick])
                     ELSE vm.skill_meta
         IN  [vm EXCEPT !.program_stack = Pop(@),
                        !.skill_meta = meta,
                        !.program = frame.program,
                        !.ip = frame.ip,
                        !.cont = TRUE]
    ELSE [vm EXCEPT !.cont = FALSE]

restore_program(vm) ==         \* the VM after the call; .cont is the result
    IF vm.program_stack # <<>>
    THEN LET frame == Top(vm.program_stack)
             inv == frame.skill_invocation
             meta == IF inv.some
                     THEN update_after_execution(vm.skill_meta, inv.skill_id,
                            [success |-> vm.error_count = inv.errors_before,
                             reward_delta |-> vm.total_reward - inv.reward_before,
                             stack_match_after |-> Len(vm.stack) >= inv.expected_depth_min,
                             used_tick |-> vm.tick])
                     ELSE vm.skill_meta
         IN  [vm EXCEPT !.program_stack = Pop(@),
                        !.skill_meta = meta,
                        !.program = frame.program,
                        !.ip = frame.ip,
                        !.cont = TRUE]
    ELSE [vm EXCEPT !.cont = FALSE]

\* the invocation that leaves ip where the caller had it
execute_skill_keeps_ip(vm, opcode) ==
    IF opcode \in DOMAIN vm.skills
    THEN [vm EXCEPT !.program_stack =
                        Append(@, [program |-> vm.program, ip |-> vm.ip,
                                   skill_invocation |->
                                      [some |-> TRUE, skill_id |-> opcode,
                                       reward_before |-> vm.total_reward,
                                       errors_before |-> vm.error_count,
                                       expected_depth_min |-> 0]]),
                    !.program = vm.skills[opcode]]
    ELSE record_error(vm, InvalidOpcode(opcode))

execute_skill(vm, opcode) ==
    IF opcode \in DOMAIN vm.skills
    THEN LET macro_code == vm.skills[opcode]
             ctx == build_context(vm.stack, vm.recent_opcodes)
             meta == bootstrap_pattern_if_empty(vm.skill_meta, opcode, ctx)
             frame == [program |-> vm.program,
                       ip |-> vm.ip,
                       skill_invocation |->
                          [some |-> TRUE,
                           skill_id |-> opcode,
                           reward_before |-> vm.total_reward,
                           errors_before |-> vm.error_count,
                           expected_depth_min |-> meta[opcode].min_depth]]
         IN  [vm EXCEPT !.skill_meta = meta,
                        !.program_stack = Append(@, frame),
                        !.program = macro_code,
                        !.ip = 0]
    ELSE record_error(vm, InvalidOpcode(opcode))

(***************************************************************************)
(* logic.rs: decode_ops_for_validation and validate_ops, used by Evolve.   *)
(* Neither is among the sources; they follow the Evolve contract of the    *)
(* specification: every cell decodes, no underflow at any point from depth *)
(* 0, and the body contains a terminating Halt.                            *)
(***************************************************************************)
RECURSIVE DecodeFrom(_, _, _)
DecodeFrom(prog, idx, acc) ==          \* idx is 0-based
    IF idx >= Len(prog) THEN [ok |-> TRUE, ops |-> acc, err |-> StackUnderflow]
    ELSE LET d == decode_opcode(prog[idx + 1])
         IN  IF ~d.ok THEN [ok |-> FALSE, ops |-> acc, err |-> d.err]
             ELSE IF d.op < SKILL_OPCODE_BASE /\ ~from_i64(d.op).some
             THEN [ok |-> FALSE, ops |-> acc, err |-> InvalidOpcode(d.op)]
             ELSE IF HasImmediate(d.op)
             THEN IF idx + 1 >= Len(prog)
                  THEN [ok |-> FALSE, ops |-> acc, err |-> InvalidOpcode(d.op)]
                  ELSE DecodeFrom(prog, idx + 2, Append(acc, d.op))
             ELSE DecodeFrom(prog, idx + 1, Append(acc, d.op))

decode_ops_for_validation(prog) == DecodeFrom(prog, 0, <<>>)

RECURSIVE ValidateFrom(_, _, _)
ValidateFrom(ops, i, depth) ==         \* TRUE iff the ops from i on are valid
    IF i > Len(ops) THEN FALSE         \* no terminating Halt
    ELSE IF ops[i] = OpHalt THEN TRUE
    ELSE IF ops[i] >= SKILL_OPCODE_BASE THEN ValidateFrom(ops, i + 1, depth)
    ELSE IF depth < op_inputs(ops[i]) THEN FALSE
    ELSE ValidateFrom(ops, i + 1, depth + stack_delta(ops[i]))

validate_ops(ops) == ValidateFrom(ops, 1, 0)

(***************************************************************************)
(* vm.rs: execute_opcode, one operator per arm of the match.  Each takes   *)
(* the VM after the pre-dispatch part and yields the VM after the arm;     *)
(* .cont = FALSE is the arm's `return false`.                              *)
(***************************************************************************)
Stop(vm, why) == [vm EXCEPT !.cont = FALSE, !.exit = why]
Underflow(vm) == record_error(vm, StackUnderflow)
Push(vm, v) == [vm EXCEPT !.stack = Append(@, v)]
Drop1(vm) == [vm EXCEPT !.stack = Pop(@)]
Drop2(vm) == [vm EXCEPT !.stack = Pop(Pop(@))]
ArgA(vm) == vm.stack[Len(vm.stack) - 1]      \* popped second
ArgB(vm) == vm.stack[Len(vm.stack)]          \* popped first

ExecLiteral(vm) ==
    IF vm.ip >= Len(vm.program) THEN Stop(vm, "missing")
    ELSE [vm EXCEPT !.ip = @ + 1, !.stack = Append(@, Number(Cell(vm, vm.ip)))]

ExecAdd(vm) ==
    IF Len(vm.stack) < 2 THEN Underflow(vm)
    ELSE LET a == ArgA(vm)
             b == ArgB(vm)
         IN  IF a.t = "Number" /\ b.t = "Number"
             THEN Push(Drop2(vm), Number(FAdd(a.n, b.n)))
             ELSE IF a.t = "String" /\ b.t = "String"
             THEN Push(Drop2(vm), String(a.s \o b.s))
             ELSE record_error(Drop2(vm), InvalidOpcode(OpAdd))

\* Sub, Mul and Gt: a pair that is not (Number, Number) is popped and nothing else
ExecSub(vm) ==
    IF Len(vm.stack) < 2 THEN Underflow(vm)
    ELSE LET a == ArgA(vm)
             b == ArgB(vm)
         IN  IF a.t = "Number" /\ b.t = "Number"
             THEN Push(Drop2(vm), Number(FSub(a.n, b.n)))
             ELSE Drop2(vm)

ExecMul(vm) ==
    IF Len(vm.stack) < 2 THEN Underflow(vm)
    ELSE LET a == ArgA(vm)
             b == ArgB(vm)
         IN  IF a.t = "Number" /\ b.t = "Number"
             THEN Push(Drop2(vm), Number(FMul(a.n, b.n)))
             ELSE Drop2(vm)

ExecEq(vm) ==
    IF Len(vm.stack) < 2 THEN Underflow(vm)
    ELSE Push(Drop2(vm), Bool(UValEq(ArgA(vm), ArgB(vm))))

\* Gt that pushes a < b
ExecGt_less(vm) ==
    IF Len(vm.stack) < 2 THEN Underflow(vm)
    ELSE LET a == ArgA(vm)
             b == ArgB(vm)
         IN  IF a.t = "Number" /\ b.t = "Number"
             THEN Push(Drop2(vm), Bool(FLess(a.n, b.n)))
             ELSE Drop2(vm)

ExecGt(vm) ==
    IF Len(vm.stack) < 2 THEN Underflow(vm)
    ELSE LET a == ArgA(vm)
             b == ArgB(vm)
         IN  IF a.t = "Number" /\ b.t = "Number"
             THEN Push(Drop2(vm), Bool(FLess(b.n, a.n)))
             ELSE Drop2(vm)

ExecNot(vm) ==
    IF vm.stack # <<>> THEN Push(Drop1(vm), Bool(~is_truthy(ArgB(vm))))
    ELSE Underflow(vm)

\* Store popping the value only
ExecStore_keeps_address(vm) ==
    IF Len(vm.stack) < 2 THEN Underflow(vm)
    ELSE LET w == memory_write(vm.memory, ArgA(vm).n, ArgB(vm))
         IN  IF ArgA(vm).t = "Number"
             THEN IF w.ok THEN record_event([Drop1(vm) EXCEPT !.memory = w.mem], MemoryWrite)
                  ELSE Drop1(vm)
             ELSE record_error(Drop1(vm), InvalidOpcode(OpStore))

ExecStore(vm) ==
    IF Len(vm.stack) < 2 THEN Underflow(vm)
    ELSE LET val == ArgB(vm)
             addr_val == ArgA(vm)
             w == memory_write(vm.memory, addr_val.n, val)
             vm1 == Drop2(vm)
         IN  IF addr_val.t = "Number"
             THEN IF w.ok THEN record_event([vm1 EXCEPT !.memory = w.mem], MemoryWrite)
                  ELSE vm1
             ELSE record_error(vm1, InvalidOpcode(OpStore))

\* Load: `if let Some(UVal::Number(addr)) = self.stack.pop()`: the pop happens
\* whatever the value is, and every other case takes the else arm
ExecLoad(vm) ==
    IF vm.stack # <<>> /\ ArgB(vm).t = "Number"
    THEN LET r == memory_read(vm.memory, ArgB(vm).n)
         IN  IF r.some THEN record_event(Push(Drop1(vm), r.val), MemoryRead)
             ELSE Push(Drop1(vm), Nil)
    ELSE IF vm.stack # <<>> THEN Underflow(Drop1(vm))
    ELSE Underflow(vm)

\* the jump of Jmp, JmpIf and Call, after the immediate was consumed
\* the validation that accepts the length of the program as a target
JumpTarget_inclusive(vm, target) ==
    IF ~is_finite(target) \/ FLess(target, NumOf(0))
    THEN [ok |-> FALSE, new_ip |-> 0, err |-> InvalidJump(-1)]
    ELSE LET new_ip == Round(target)
         IN  IF new_ip > Len(vm.program)
             THEN [ok |-> FALSE, new_ip |-> new_ip, err |-> InvalidJump(new_ip)]
             ELSE [ok |-> TRUE, new_ip |-> new_ip, err |-> InvalidJump(new_ip)]

JumpTarget(vm, target) ==      \* [ok, new_ip, err]
    IF ~is_finite(target) \/ FLess(target, NumOf(0))
    THEN [ok |-> FALSE, new_ip |-> 0, err |-> InvalidJump(-1)]
    ELSE LET new_ip == Round(target)
         IN  IF new_ip >= Len(vm.program)
             THEN [ok |-> FALSE, new_ip |-> new_ip, err |-> InvalidJump(new_ip)]
             ELSE [ok |-> TRUE, new_ip |-> new_ip, err |-> InvalidJump(new_ip)]

ExecJmp(vm) ==
    IF vm.ip >= Len(vm.program) THEN Stop(vm, "missing")
    ELSE LET j == JumpTarget(vm, Cell(vm, vm.ip))
             vm1 == [vm EXCEPT !.ip = @ + 1]
         IN  IF j.ok THEN [vm1 EXCEPT !.ip = j.new_ip] ELSE record_error(vm1, j.err)

ExecJmpIf(vm) ==
    IF vm.ip >= Len(vm.program) THEN Stop(record_error(vm, InvalidJump(-1)), "missing")
    ELSE IF vm.stack = <<>> THEN Underflow(vm)
    ELSE LET j == JumpTarget(vm, Cell(vm, vm.ip))
             condition == ArgB(vm)
             vm1 == Drop1([vm EXCEPT !.ip = @ + 1])
         IN  IF is_truthy(condition)
             THEN IF j.ok THEN [vm1 EXCEPT !.ip = j.new_ip] ELSE record_error(vm1, j.err)
             ELSE vm1

ExecCall(vm) ==
    IF vm.ip >= Len(vm.program) THEN Stop(vm, "missing")
    ELSE LET j == JumpTarget(vm, Cell(vm, vm.ip))
             vm1 == [vm EXCEPT !.ip = @ + 1]
         IN  IF j.ok THEN [vm1 EXCEPT !.call_stack = Append(@, vm1.ip), !.ip = j.new_ip]
             ELSE record_error(vm1, j.err)

ExecRet(vm) ==
    IF vm.call_stack # <<>>
    THEN [vm EXCEPT !.ip = Top(vm.call_stack), !.call_stack = Pop(@)]
    ELSE record_error(vm, ReturnStackUnderflow)

\* Intuition: `pick` is what select_skill returned (0 for None)
ExecIntuition(vm, pick) ==
    LET vm1 == [vm EXCEPT !.skill_meta = EnsureAll(@, DOMAIN vm.skills)]
    IN  IF pick = 0 THEN vm1 ELSE execute_skill(vm1, pick)

ExecReward(vm) ==
    flush_trace(record_event([vm EXCEPT !.total_reward = @ + 100], Reward(100)))

ExecEvolve(vm) ==
    IF vm.stack # <<>> /\ ArgB(vm).t = "Number"
    THEN LET id == AsI64(ArgB(vm).n)
             skill_program == vm.program
             d == decode_ops_for_validation(skill_program)
             vm1 == Drop1(vm)
         IN  IF ~d.ok THEN record_error(vm1, d.err)
             ELSE IF ~validate_ops(d.ops) THEN record_error(vm1, InvalidEvolve(id))
             ELSE flush_trace(record_event(
                    [vm1 EXCEPT !.skills = [k \in DOMAIN @ \cup {id} |->
                                              IF k = id THEN skill_program ELSE @[k]]],
                    Reward(100)))
    ELSE IF vm.stack # <<>> THEN record_error(Drop1(vm), InvalidEvolve(-1))
    ELSE record_error(vm, InvalidEvolve(-1))

\* Halt ending run whatever the program-frame stack holds
ExecHalt_stops_vm(vm) == Stop(flush_trace(vm), "halt")

ExecHalt(vm) ==
    LET r == restore_program(flush_trace(vm))
    IN  IF r.cont THEN r ELSE Stop(r, "halt")

ExecSwap(vm) ==
    IF Len(vm.stack) < 2 THEN Underflow(vm)
    ELSE Push(Push(Drop2(vm), ArgB(vm)), ArgA(vm))

ExecDup(vm) == IF vm.stack # <<>> THEN Push(vm, ArgB(vm)) ELSE Underflow(vm)

ExecOver(vm) == IF Len(vm.stack) < 2 THEN Underflow(vm) ELSE Push(vm, ArgA(vm))

ExecDrop(vm) == IF vm.stack # <<>> THEN Drop1(vm) ELSE Underflow(vm)

ExecAnd(vm) ==
    IF Len(vm.stack) < 2 THEN Underflow(vm)
    ELSE Push(Drop2(vm), Bool(is_truthy(ArgA(vm)) /\ is_truthy(ArgB(vm))))

ExecOr(vm) ==
    IF Len(vm.stack) < 2 THEN Underflow(vm)
    ELSE Push(Drop2(vm), Bool(is_truthy(ArgA(vm)) \/ is_truthy(ArgB(vm))))

ExecXor(vm) ==
    IF Len(vm.stack) < 2 THEN Underflow(vm)
    ELSE Push(Drop2(vm), Bool(is_truthy(ArgA(vm)) # is_truthy(ArgB(vm))))

ExecIsZero(vm) ==
    IF vm.stack # <<>> THEN Push(Drop1(vm), Bool(~is_truthy(ArgB(vm))))
    ELSE Underflow(vm)

ExecMod(vm) ==
    IF Len(vm.stack) < 2 THEN Underflow(vm)
    ELSE LET a == ArgA(vm)
             b == ArgB(vm)
         IN  IF a.t = "Number" /\ b.t = "Number"
             THEN Push(Drop2(vm), Number(FRem(a.n, b.n)))
             ELSE record_error(Drop2(vm), InvalidOpcode(OpMod))

ExecInc(vm) ==
    IF vm.stack = <<>> THEN Underflow(vm)
    ELSE IF ArgB(vm).t = "Number" THEN Push(Drop1(vm), Number(FAdd(ArgB(vm).n, NumOf(1))))
    ELSE record_error(Drop1(vm), InvalidOpcode(OpInc))

ExecDec(vm) ==
    IF vm.stack = <<>> THEN Underflow(vm)
    ELSE IF ArgB(vm).t = "Number" THEN Push(Drop1(vm), Number(FSub(ArgB(vm).n, NumOf(1))))
    ELSE record_error(Drop1(vm), InvalidOpcode(OpDec))

ExecParse(vm) ==
    IF vm.stack = <<>> THEN Underflow(vm)
    ELSE LET v == ArgB(vm)
         IN  IF v.t = "String"
             THEN LET r == ParseF64(v.s)
                  IN  IF r.ok THEN Push(Drop1(vm), Number(r.val)) ELSE Push(Drop1(vm), Nil)
             ELSE IF v.t = "Number" THEN Push(Drop1(vm), Number(v.n))
             ELSE Push(Drop1(vm), Nil)

ExecArm(vm, op, pick) ==
    CASE op = OpLiteral -> ExecLiteral(vm)
      [] op = OpAdd -> ExecAdd(vm)
      [] op = OpSub -> ExecSub(vm)
      [] op = OpMul -> ExecMul(vm)
      [] op = OpEq -> ExecEq(vm)
      [] op = OpGt -> ExecGt(vm)
      [] op = OpNot -> ExecNot(vm)
      [] op = OpStore -> ExecStore(vm)
      [] op = OpLoad -> ExecLoad(vm)
      [] op = OpIntuition -> ExecIntuition(vm, pick)
      [] op = OpJmp -> ExecJmp(vm)
      [] op = OpJmpIf -> ExecJmpIf(vm)
      [] op = OpCall -> ExecCall(vm)
      [] op = OpRet -> ExecRet(vm)
      [] op = OpReward -> ExecReward(vm)
      [] op = OpEvolve -> ExecEvolve(vm)
      [] op = OpHalt -> ExecHalt(vm)
      [] op = OpSwap -> ExecSwap(vm)
      [] op = OpDup -> ExecDup(vm)
      [] op = OpOver -> ExecOver(vm)
      [] op = OpDrop -> ExecDrop(vm)
      [] op = OpAnd -> ExecAnd(vm)
      [] op = OpOr -> ExecOr(vm)
      [] op = OpXor -> ExecXor(vm)
      [] op = OpIsZero -> ExecIsZero(vm)
      [] op = OpMod -> ExecMod(vm)
      [] op = OpInc -> ExecInc(vm)
      [] op = OpDec -> ExecDec(vm)
      [] op = OpParse -> ExecParse(vm)

PreDispatchUnderflow(vm, op) ==
    stack_delta(op) < 0 /\ Len(vm.stack) < -stack_delta(op)

execute_opcode(vm, op, pick) ==
    IF PreDispatchUnderflow(vm, op) THEN record_error(vm, StackUnderflow)
    ELSE ExecArm(push_recent_opcode(record_event(vm, OpcodeEvent(op, Len(vm.stack))), op),
                 op, pick)

(***************************************************************************)
(* vm.rs: run as an operator on the VM record.  run_iteration is the body  *)
(* of the loop, taken once; run_loop repeats it while the loop condition   *)
(* holds.  picks are the skills select_skill draws, in order.              *)
(***************************************************************************)
run_iteration(vm, pick) ==
    IF vm.ip >= Len(vm.program)
    THEN IF vm.program_stack # <<>>
         THEN restore_program(vm)
         ELSE Stop(flush_trace(restore_program(vm)), "end")
    ELSE LET raw == Cell(vm, vm.ip)
             d == decode_opcode(raw)
             fetched == [vm EXCEPT !.ip = @ + 1, !.cycles = @ + 1, !.tick = @ + 1]
         IN  IF ~d.ok THEN record_error(fetched, d.err)
             ELSE IF d.op >= SKILL_OPCODE_BASE
             THEN execute_skill(
                    push_recent_opcode(
                        record_event(fetched, OpcodeEvent(d.op, Len(vm.stack))), d.op),
                    d.op)
             ELSE IF ~from_i64(d.op).some THEN record_error(fetched, InvalidOpcode(d.op))
             ELSE execute_opcode(fetched, d.op, pick)

\* the next iteration of vm dispatches Op::Intuition
DrawsSkill(vm) ==
    /\ vm.ip < Len(vm.program)
    /\ decode_opcode(Cell(vm, vm.ip)).ok
    /\ decode_opcode(Cell(vm, vm.ip)).op = OpIntuition

RECURSIVE run_loop(_, _, _)
run_loop(vm, budget, picks) ==
    IF ~vm.cont THEN vm
    ELSE IF vm.cycles >= budget THEN Stop(vm, "budget")
    ELSE LET drawing == DrawsSkill(vm) /\ picks # <<>>
             pick == IF drawing THEN Head(picks) ELSE 0
             rest == IF drawing THEN Tail(picks) ELSE picks
         IN  \* the VM after the iteration is computed once, then looped on
             CHOOSE after \in {run_loop(next, budget, rest) :
                                  next \in {run_iteration(vm, pick)}} : TRUE

run(vm, budget, picks) ==
    CHOOSE after \in {run_loop(entered, budget, picks) :
                         entered \in {[vm EXCEPT !.cycles = 0, !.cont = TRUE,
                                                 !.exit = "none"]}} : TRUE

(***************************************************************************)
(* The programs, skill libraries and operand stacks the VM is started on.  *)
(***************************************************************************)
Prog(ints) == [i \in 1..Len(ints) |-> NumOf(ints[i])]

\* every sequence over S of length at most n
RECURSIVE SeqsUpTo(_, _)
SeqsUpTo(S, n) ==
    IF n = 0 THEN {<<>>}
    ELSE LET shorter == SeqsUpTo(S, n - 1)
         IN  shorter \cup {Append(q, x) : q \in shorter, x \in S}

ProbeValues ==
    {Nil, Bool(TRUE), Number(NumOf(0)), Number(NumOf(2)), String(<<"7">>)}

Library ==
    [id \in 1000..1009 |->
        CASE id = 1000 -> Prog(<<OpLiteral, 2, OpAdd, OpHalt>>)
          [] id = 1001 -> Prog(<<OpInc>>)                     \* runs off its end
          [] id = 1002 -> Prog(<<OpLiteral>>)                 \* immediate missing
          [] id = 1003 -> Prog(<<OpRet>>)
          [] id = 1004 -> Prog(<<OpLiteral, 0, OpDrop, OpCall, 5, OpHalt>>)
          [] id = 1005 -> Prog(<<1005>>)                      \* invokes itself
          [] id = 1006 -> Prog(<<OpReward, OpSub, OpHalt>>)
          [] id = 1007 -> Prog(<<1000, 1001, OpHalt>>)        \* nested invocations
          [] id = 1008 -> Prog(<<OpLiteral, 3, OpStore, OpLiteral, 3, OpLoad>>)
          [] id = 1009 -> Prog(<<OpDup, OpMul>>)]

SmallLibrary == [id \in {1000, 1001} |-> Library[id]]
EmptyLibrary == [id \in {} |-> <<>>]

\* first cells of the probe programs: every primitive opcode, skill ids,
\* integers that are no opcode, and cells that do not decode
ProbeCells ==
    {NumOf(i) : i \in PrimitiveOps \cup {4, 30, -1, 999, 1000, 1001, 1002, 1008, 1009, 1999}}
    \cup {NaN, PInf, Fin(8, 1), Fin(8, 2), Fin(7, Half), Fin(7, Frac - 1), Fin(-8, -1)}

ImmediateCells == {NumOf(OpLiteral), NumOf(OpJmp), NumOf(OpJmpIf), NumOf(OpCall)}

ProbeTails ==
    {<<>>,
     <<NumOf(9), NumOf(OpHalt)>>,             \* a target out of range
     <<Fin(1, Half), NumOf(OpDup)>>,          \* 1.5, rounds to 2
     <<NumOf(-1), NumOf(OpHalt)>>,
     <<NaN, NumOf(OpHalt)>>}

\* the operand stacks of the probes: every stack of at most two cells, and
\* the deeper ones with every top two cells over cells holding 2 (no opcode
\* reads below the second cell from the top)
ProbeStacks ==
    SeqsUpTo(ProbeValues, Min(2, MaxInitDepth))
    \cup {[i \in 1..n |-> IF i <= n - 2 THEN Number(NumOf(2)) ELSE top[i - (n - 2)]] :
             n \in 3..MaxInitDepth, top \in [1..2 -> ProbeValues]}

\* every first cell on every operand stack, followed by <<2, Halt>>; and the
\* opcodes with an immediate followed by each tail
Probes ==
    {[program |-> <<c, NumOf(2), NumOf(OpHalt)>>, stack |-> st, skills |-> Library,
      det |-> FALSE] :
        c \in ProbeCells, st \in ProbeStacks}
    \cup
    {[program |-> <<c>> \o t, stack |-> st, skills |-> Library, det |-> FALSE] :
        c \in ImmediateCells, t \in ProbeTails, st \in {<<>>, <<Nil>>, <<Bool(TRUE)>>}}

Scenario(prog, st, lib, det) == [program |-> prog, stack |-> st, skills |-> lib, det |-> det]

HotLoop == Prog(<<OpLiteral, 1, OpLiteral, 2, OpAdd, OpDrop, OpJmp, 0>>)
CompareSwap == Prog(<<OpOver, OpOver, OpGt, OpJmpIf, 6, OpHalt, OpSwap, OpHalt>>)

Curated ==
    {Scenario(HotLoop, <<>>, EmptyLibrary, FALSE),
     Scenario(CompareSwap, <<Number(NumOf(9)), Number(NumOf(2))>>, EmptyLibrary, FALSE),
     Scenario(CompareSwap, <<Number(NumOf(2)), Number(NumOf(9))>>, EmptyLibrary, FALSE),
     Scenario(<<NumOf(OpLiteral), Fin(10, Half), NumOf(OpLiteral), Fin(20, Half),
                NumOf(OpAdd), NumOf(OpHalt)>>, <<>>, EmptyLibrary, FALSE),
     Scenario(Prog(<<OpAdd, OpHalt>>), <<>>, EmptyLibrary, FALSE),
     Scenario(Prog(<<OpLiteral, 10, OpLiteral, 5, OpGt, OpHalt>>), <<>>, EmptyLibrary, FALSE),
     Scenario(Prog(<<1000, OpHalt>>), <<Number(NumOf(1))>>, Library, FALSE),
     Scenario(Prog(<<1001, 1001>>), <<Number(NumOf(1))>>, Library, FALSE),
     Scenario(Prog(<<1002, OpHalt>>), <<>>, Library, FALSE),
     Scenario(Prog(<<OpCall, 3, OpHalt, 1003, OpHalt>>), <<>>, Library, FALSE),
     Scenario(Prog(<<1004, OpRet>>), <<>>, Library, FALSE),
     Scenario(Prog(<<1005>>), <<>>, Library, FALSE),
     Scenario(Prog(<<1006, 1006, OpHalt>>), <<Number(NumOf(5)), Bool(TRUE)>>, Library, FALSE),
     Scenario(Prog(<<1007, OpHalt>>), <<Number(NumOf(1))>>, Library, FALSE),
     \* the nested 1000 underflows
     Scenario(Prog(<<1007, OpHalt>>), <<>>, Library, FALSE),
     Scenario(Prog(<<OpLiteral, 1000, OpEvolve, OpHalt>>), <<>>, EmptyLibrary, FALSE),
     Scenario(Prog(<<OpLiteral, 17, OpEvolve, 17, OpHalt>>), <<>>, EmptyLibrary, FALSE),
     Scenario(Prog(<<OpLiteral, 5, OpEvolve>>), <<>>, EmptyLibrary, FALSE),
     Scenario(Prog(<<OpLiteral, 5, OpEvolve, OpHalt>>), <<>>, EmptyLibrary, FALSE),
     Scenario(Prog(<<OpIntuition, OpIntuition, OpHalt>>), <<Number(NumOf(1))>>, SmallLibrary, FALSE),
     Scenario(Prog(<<OpIntuition, OpIntuition, OpHalt>>), <<Number(NumOf(1))>>, SmallLibrary, TRUE),
     Scenario(Prog(<<OpIntuition, OpHalt>>), <<>>, EmptyLibrary, FALSE),
     \* 1001 is bootstrapped on a stack of one number; Intuition then runs on
     \* the empty stack
     Scenario(Prog(<<1001, OpDrop, OpIntuition, OpHalt>>), <<Number(NumOf(1))>>,
              [id \in {1001} |-> Library[id]], FALSE),
     Scenario(Prog(<<OpLiteral, 5, OpLiteral, 7, OpStore, OpLiteral, 5, OpLoad, OpHalt>>),
              <<>>, EmptyLibrary, FALSE),
     Scenario(Prog(<<OpJmpIf, 2, OpLiteral, 3, OpJmpIf, 0, OpHalt>>), <<>>, EmptyLibrary, FALSE),
     Scenario(Prog(<<OpCall, 3, OpHalt, OpLiteral, 4, OpRet>>), <<>>, EmptyLibrary, FALSE),
     \* nested calls
     Scenario(Prog(<<OpCall, 3, OpHalt, OpCall, 6, OpRet, OpRet>>), <<>>, EmptyLibrary, FALSE),
     \* 2.5 rounds to the length of the program
     Scenario(<<NumOf(OpJmp), Fin(2, Half), NumOf(OpHalt)>>, <<>>, EmptyLibrary, FALSE),
     Scenario(Prog(<<OpDup, OpDup, OpDup, OpDup, OpDup, 1001, OpHalt>>),
              <<Number(NumOf(1))>>, Library, FALSE)}

Scenarios == Probes \cup Curated

(***************************************************************************)
(* Initial state: SoulGainVM::new(program), then the caller's setup of the *)
(* public fields stack and skills.                                         *)
(***************************************************************************)
\* no call on the MemorySystem yet
NoMemoryCall ==
    [op |-> "none", addr |-> NumOf(0), val |-> Nil, ok |-> FALSE,
     read |-> [some |-> FALSE, val |-> Nil], before |-> [k \in {} |-> Nil],
     written |-> <<>>, calls |-> 0]

\* Plasticity::new(): an empty store, an empty channel, one handle, the worker
\* thread spawned and waiting in rx.recv()
NoWork ==
    [pc |-> "recv", batch |-> <<>>, current |-> [event |-> NoEvent, time |-> 0],
     updates |-> <<>>, normalize_sources |-> {}, held |-> <<>>, planned |-> <<>>]
NoFile == [present |-> FALSE, intact |-> FALSE, entries |-> <<>>]
EmptyPlasticityLog ==
    [delivered |-> <<>>, ops |-> 0, torn |-> FALSE, loaded |-> "none", best |-> NoEvent]
PlasticityNew ==
    /\ weights = [edge \in {} |-> 0]
    /\ channel = <<>>
    /\ senders = 1
    /\ worker = NoWork
    /\ recent_events = <<>>
    /\ write_locked = FALSE
    /\ clock = 0
    /\ plog = EmptyPlasticityLog


\* SoulGainVM::new, then the caller's setup of the public fields, in a process
\* started with the file on_disk
StartedWith(sc, on_disk) ==
    /\ program = sc.program
    /\ stack = sc.stack
    /\ skills = sc.skills
    /\ deterministic_mode = sc.det
    /\ call_stack = <<>>
    /\ program_stack = <<>>
    /\ ip = 0
    /\ memory = [k \in {} |-> Nil]
    /\ skill_meta = [k \in {} |-> DefaultMeta(0)]
    /\ last_event = NoEvent
    /\ trace = <<>>
    /\ recent_opcodes = <<>>
    /\ tick = 0
    /\ total_reward = 0
    /\ error_count = 0
    /\ sent = <<>>
    /\ pc = "idle"
    /\ cycles = 0
    /\ max_cycles = 0
    /\ exit = "none"
    /\ runs = 0
    /\ recorded = <<>>
    /\ at_start = [program |-> sc.program, stack |-> sc.stack, call_stack |-> <<>>,
                   program_stack |-> <<>>, ip |-> 0, memory |-> [k \in {} |-> Nil],
                   skills |-> sc.skills, trace |-> <<>>, tick |-> 0,
                   total_reward |-> 0, error_count |-> 0, nrecorded |-> 0,
                   nsent |-> 0, cycles |-> 0]
    /\ last = [act |-> "none", op |-> -1, raw |-> NumOf(0), before |-> at_start]
    /\ origin = Self
    /\ runlog = [budgets |-> <<>>, exits |-> <<>>, picks |-> <<>>]
    /\ PlasticityNew
    /\ file = on_disk
    /\ mlog = NoMemoryCall

NewVM(sc) == StartedWith(sc, NoFile)

None == [some |-> FALSE, program |-> <<>>]
Some(prog) == [some |-> TRUE, program |-> prog]

\* best_fitness = 0.0: a fitness is the quotient num / den, ds the distances
\* |a - b| it was computed from (-1 where a pair is not numeric)
ZeroFitness == [nan |-> FALSE, num |-> 0, den |-> 1, ds |-> <<>>]

NoSynth ==
    [input |-> <<>>, expected |-> <<>>, attempts_limit |-> 0, current_len |-> 0,
     level_attempt |-> 0, failed_attempts |-> {}, best_program |-> None,
     best_fitness |-> ZeroFitness]

NoTrial ==
    [program |-> <<>>, logic |-> <<>>, strategy |-> "none",
     entry |-> [stack |-> <<>>, ip |-> 0, call_stack |-> <<>>, program_stack |-> <<>>],
     result |-> <<>>, fitness |-> ZeroFitness]

EmptyLog ==
    [calls |-> 0, planned |-> 0, trials |-> 0, scored |-> {},
     trial |-> NoTrial]

\* no Trainer has been built on the VM
NoTrainer ==
    /\ max_program_len = 0
    /\ goal = [input |-> <<>>, expected |-> <<>>]
    /\ synth = NoSynth
    /\ tpc = "idle"
    /\ result = None
    /\ drawn = 0
    /\ attempts = 0
    /\ tlog = EmptyLog

Init ==
    \E sc \in Scenarios :
        /\ NewVM(sc)
        /\ NoTrainer

(***************************************************************************)
(* run(max_cycles): the call, then one action per way through the body of  *)
(* its loop.                                                               *)
(***************************************************************************)
Budgets == {0, 1, 2, MaxCycles}

Snapshot ==
    [program |-> program, stack |-> stack, call_stack |-> call_stack,
     program_stack |-> program_stack, ip |-> ip, memory |-> memory, skills |-> skills,
     trace |-> trace, tick |-> tick, total_reward |-> total_reward,
     error_count |-> error_count, nrecorded |-> Len(recorded), nsent |-> Len(sent),
     cycles |-> cycles]

\* the VM's fields become those of vm; the loop goes on iff vm.cont; picks holds
\* the skill drawn by select_skill when the iteration drew one
CommitPick(vm, act, op, raw, picks) ==
    /\ program' = vm.program
    /\ stack' = vm.stack
    /\ call_stack' = vm.call_stack
    /\ program_stack' = vm.program_stack
    /\ ip' = vm.ip
    /\ memory' = vm.memory
    /\ skills' = vm.skills
    /\ skill_meta' = vm.skill_meta
    /\ last_event' = vm.last_event
    /\ trace' = vm.trace
    /\ recent_opcodes' = vm.recent_opcodes
    /\ tick' = vm.tick
    /\ total_reward' = vm.total_reward
    /\ error_count' = vm.error_count
    /\ sent' = vm.sent
    /\ recorded' = vm.recorded
    /\ cycles' = vm.cycles
    /\ pc' = IF vm.cont THEN "running" ELSE "returned"
    /\ exit' = vm.exit
    /\ last' = [act |-> act, op |-> op, raw |-> raw, before |-> Snapshot]
    /\ runlog' = [runlog EXCEPT !.exits = IF vm.cont THEN @ ELSE Append(@, vm.exit),
                                !.picks = @ \o picks]
    /\ UNCHANGED <<deterministic_mode, max_cycles, runs, at_start, origin>>
    /\ UNCHANGED tvars
    /\ UNCHANGED <<pvars, mlog>>

Commit(vm, act, op, raw) == CommitPick(vm, act, op, raw, <<>>)

\* run starting over at the first cell instead of going on from ip
StartRunWith_restarts(budgets) ==
    /\ pc # "running"
    /\ runs < MaxRuns
    /\ \E m \in budgets :
          /\ max_cycles' = m
          /\ runlog' = [runlog EXCEPT !.budgets = Append(@, m)]
    /\ pc' = "running"
    /\ cycles' = 0
    /\ ip' = 0
    /\ runs' = runs + 1
    /\ exit' = "none"
    /\ at_start' = Snapshot
    /\ last' = [act |-> "start", op |-> -1, raw |-> NumOf(0), before |-> Snapshot]
    /\ UNCHANGED <<program, stack, call_stack, program_stack, memory, skills,
                   skill_meta, deterministic_mode, last_event, trace, recent_opcodes,
                   tick, total_reward, error_count, sent, recorded, origin>>
    /\ UNCHANGED tvars
    /\ UNCHANGED <<pvars, mlog>>

StartRunWith(budgets) ==
    /\ pc # "running"
    /\ runs < MaxRuns
    /\ \E m \in budgets :
          /\ max_cycles' = m
          /\ runlog' = [runlog EXCEPT !.budgets = Append(@, m)]
    /\ pc' = "running"
    /\ cycles' = 0
    /\ runs' = runs + 1
    /\ exit' = "none"
    /\ at_start' = Snapshot
    /\ last' = [act |-> "start", op |-> -1, raw |-> NumOf(0), before |-> Snapshot]
    /\ UNCHANGED <<program, stack, call_stack, program_stack, ip, memory, skills,
                   skill_meta, deterministic_mode, last_event, trace, recent_opcodes,
                   tick, total_reward, error_count, sent, recorded, origin>>
    /\ UNCHANGED tvars
    /\ UNCHANGED <<pvars, mlog>>

StartRun ==
    /\ pc # "running"
    /\ StartRunWith(Budgets)

\* run called with the largest budget only
StartRunAmple ==
    /\ pc # "running"
    /\ StartRunWith({MaxCycles})

InLoop == pc = "running" /\ cycles < max_cycles

\* `while cycles < max_cycles` is false
BudgetExhausted ==
    /\ pc = "running"
    /\ cycles >= max_cycles
    /\ Commit(Stop(Self, "budget"), "budget", -1, NumOf(0))

\* ip >= program.len() and restore_program() returned true
RestoreFrame ==
    /\ InLoop
    /\ ip >= Len(program)
    /\ program_stack # <<>>
    /\ Commit(restore_program(Self), "restore", -1, NumOf(0))

\* ip >= program.len() and no frame is left
ProgramEnd ==
    /\ InLoop
    /\ ip >= Len(program)
    /\ program_stack = <<>>
    /\ Commit(Stop(flush_trace(restore_program(Self)), "end"), "end", -1, NumOf(0))

Fetching == InLoop /\ ip < Len(program)
Raw == program[ip + 1]
\* the fetch without the cycle count
Fetched_uncounted == [Self EXCEPT !.ip = @ + 1, !.tick = @ + 1]
Fetched == [Self EXCEPT !.ip = @ + 1, !.cycles = @ + 1, !.tick = @ + 1]

DecodeError ==
    /\ Fetching
    /\ ~decode_opcode(Raw).ok
    /\ Commit(record_error(Fetched, decode_opcode(Raw).err), "decode_error", -1, Raw)

Decoded(opcode) == Fetching /\ decode_opcode(Raw).ok /\ decode_opcode(Raw).op = opcode
Opcode == decode_opcode(Raw).op

InvokeSkill ==
    /\ Fetching
    /\ decode_opcode(Raw).ok
    /\ Opcode >= SKILL_OPCODE_BASE
    /\ Commit(execute_skill(
                push_recent_opcode(
                    record_event(Fetched, OpcodeEvent(Opcode, Len(stack))), Opcode),
                Opcode),
              "skill", Opcode, Raw)

UnknownOpcode ==
    /\ Fetching
    /\ decode_opcode(Raw).ok
    /\ Opcode < SKILL_OPCODE_BASE
    /\ ~from_i64(Opcode).some
    /\ Commit(record_error(Fetched, InvalidOpcode(Opcode)), "unknown", Opcode, Raw)

Primitive(op) == Commit(execute_opcode(Fetched, op, 0), "primitive", op, Raw)

Literal ==
    /\ Decoded(OpLiteral)
    /\ Primitive(OpLiteral)

Add ==
    /\ Decoded(OpAdd)
    /\ Primitive(OpAdd)

Sub ==
    /\ Decoded(OpSub)
    /\ Primitive(OpSub)

Mul ==
    /\ Decoded(OpMul)
    /\ Primitive(OpMul)

Eq ==
    /\ Decoded(OpEq)
    /\ Primitive(OpEq)

Store ==
    /\ Decoded(OpStore)
    /\ Primitive(OpStore)

Load ==
    /\ Decoded(OpLoad)
    /\ Primitive(OpLoad)

Halt ==
    /\ Decoded(OpHalt)
    /\ Primitive(OpHalt)

Gt ==
    /\ Decoded(OpGt)
    /\ Primitive(OpGt)

Not ==
    /\ Decoded(OpNot)
    /\ Primitive(OpNot)

Jmp ==
    /\ Decoded(OpJmp)
    /\ Primitive(OpJmp)

JmpIf ==
    /\ Decoded(OpJmpIf)
    /\ Primitive(OpJmpIf)

Call ==
    /\ Decoded(OpCall)
    /\ Primitive(OpCall)

Ret ==
    /\ Decoded(OpRet)
    /\ Primitive(OpRet)

RewardOp ==
    /\ Decoded(OpReward)
    /\ Primitive(OpReward)

Evolve ==
    /\ Decoded(OpEvolve)
    /\ Primitive(OpEvolve)

Swap ==
    /\ Decoded(OpSwap)
    /\ Primitive(OpSwap)

Dup ==
    /\ Decoded(OpDup)
    /\ Primitive(OpDup)

Over ==
    /\ Decoded(OpOver)
    /\ Primitive(OpOver)

Drop ==
    /\ Decoded(OpDrop)
    /\ Primitive(OpDrop)

And ==
    /\ Decoded(OpAnd)
    /\ Primitive(OpAnd)

Or ==
    /\ Decoded(OpOr)
    /\ Primitive(OpOr)

Xor ==
    /\ Decoded(OpXor)
    /\ Primitive(OpXor)

IsZero ==
    /\ Decoded(OpIsZero)
    /\ Primitive(OpIsZero)

Mod ==
    /\ Decoded(OpMod)
    /\ Primitive(OpMod)

Inc ==
    /\ Decoded(OpInc)
    /\ Primitive(OpInc)

Dec ==
    /\ Decoded(OpDec)
    /\ Primitive(OpDec)

Parse ==
    /\ Decoded(OpParse)
    /\ Primitive(OpParse)

\* Intuition: select_skill draws from its generator unless deterministic_mode
Intuition ==
    /\ Decoded(OpIntuition)
    /\ LET ctx == build_context(stack, recent_opcodes)
           sel == SelectableSkills(EnsureAll(skill_meta, DOMAIN skills),
                                   deterministic_mode, ctx, DOMAIN skills, tick + 1)
       IN  \E pick \in (IF sel = {} THEN {0} ELSE sel) :
              CommitPick(execute_opcode(Fetched, OpIntuition, pick), "primitive",
                         OpIntuition, Raw, <<pick>>)

Step ==
    \/ BudgetExhausted \/ RestoreFrame \/ ProgramEnd \/ DecodeError
    \/ InvokeSkill \/ UnknownOpcode
    \/ Literal \/ Add \/ Sub \/ Mul \/ Eq \/ Store \/ Load \/ Halt \/ Gt \/ Not
    \/ Jmp \/ JmpIf \/ Call \/ Ret \/ Intuition \/ RewardOp \/ Evolve
    \/ Swap \/ Dup \/ Over \/ Drop \/ And \/ Or \/ Xor \/ IsZero
    \/ Mod \/ Inc \/ Dec \/ Parse

Next == StartRun \/ Step

Spec == Init /\ [][Next]_vars

\* the runs whose budget is MaxCycles
NextAmple == StartRunAmple \/ Step
AmpleSpec == Init /\ [][NextAmple]_vars

(***************************************************************************)
(* evolution.rs: the Trainer.  A Trainer owns a VM and searches for a      *)
(* program whose final stack is what the oracle expects for the input.     *)
(***************************************************************************)
MaxTrials == 2          \* loop iterations of synthesize over the life of one Trainer
IdSpace == 2            \* size of the range generate_random_id draws from,
                        \* standing for the 8999 ids of 1000..9999
TRIAL_CYCLES == 10000   \* the budget execute_program passes to run

IdRange == SKILL_OPCODE_BASE .. (SKILL_OPCODE_BASE + IdSpace - 1)

\* f64 values of the fitness arithmetic, as exact quotients.  The operands of
\* the goals below are whole numbers and the library adds, subtracts and
\* multiplies them, so every distance |a - b| is a whole number.
Quotient(num, den) == [nan |-> FALSE, num |-> num, den |-> den, ds |-> <<>>]
NotANumber == [nan |-> TRUE, num |-> 0, den |-> 1, ds |-> <<>>]
Tenth == Quotient(1, 10)                    \* the literal 0.1
SuccessThreshold == Quotient(9999, 10000)   \* the literal 0.9999

\* the quotients are equal but were computed from different operands, so that
\* their roundings may differ by a unit in the last place
Tied(f, g) == f.num * g.den = g.num * f.den /\ f.num > 0 /\ f.ds # g.ds

\* f < g may hold / f > g may hold / f >= g may hold, on f64; a comparison
\* with NaN is false
FitnessLess(f, g) ==
    IF f.nan \/ g.nan THEN {FALSE}
    ELSE IF Tied(f, g) THEN BOOLEAN
    ELSE {f.num * g.den < g.num * f.den}

FitnessGreater(f, g) == FitnessLess(g, f)

FitnessAtLeast(f, g) ==
    IF f.nan \/ g.nan THEN {FALSE} ELSE {~b : b \in FitnessLess(f, g)}

\* (fitness * 100.0) as u8, for a fitness above 0.1
AsPercent(f) == Min(255, (f.num * 100) \div f.den)

\* |a - b| of the pair at one position: -1 when the pair is not numeric, -2
\* when the difference is NaN, -3 when it is infinite
Distance(got, want) ==
    IF got.t = "Number" /\ want.t = "Number"
    THEN LET d == FAbs(FSub(got.n, want.n))
         IN  IF d.k = "nan" THEN -2 ELSE IF d.k # "fin" THEN -3 ELSE Round(d)
    ELSE -1

\* score += 1.0 / (1.0 + d)
AddTerm(score, d) ==
    IF d < 0 THEN score
    ELSE [score EXCEPT !.num = @ * (1 + d) + score.den, !.den = @ * (1 + d)]

RECURSIVE SumTerms(_)
SumTerms(ds) ==
    IF ds = <<>> THEN Quotient(0, 1)
    ELSE AddTerm(SumTerms(SubSeq(ds, 1, Len(ds) - 1)), ds[Len(ds)])

calculate_fitness(res, expected) ==
    IF res = <<>> \/ Len(res) # Len(expected) THEN ZeroFitness
    ELSE LET ds == [i \in 1..Len(res) |-> Distance(res[i], expected[i])]
             score == SumTerms(ds)
         IN  IF \E i \in 1..Len(ds) : ds[i] = -2 THEN NotANumber
             ELSE [score EXCEPT !.den = @ * Len(expected), !.ds = ds]

\* the VM after execute_program(program); the result is its operand stack
execute_program(vm, prog) ==
    LET previous == vm.program
        entered == [vm EXCEPT !.stack = <<>>, !.ip = 0, !.program = prog]
    IN  [run(entered, TRIAL_CYCLES, <<>>) EXCEPT !.program = previous]

\* what the VM holds when execute_program calls run
AtEntry(vm) ==
    [stack |-> <<>>, ip |-> 0, call_stack |-> vm.call_stack,
     program_stack |-> vm.program_stack]

\* choose_random_op_with_bias: the opcodes it can return
choose_random_op_with_bias(vm) == {OpAdd, OpSub, OpMul} \cup DOMAIN vm.skills

\* choose_op_with_stdp: the best-weighted opcode, a random one or Add, all of
\* them among Add, Sub, Mul and the skill ids
choose_op_with_stdp(vm) == {OpAdd, OpSub, OpMul} \cup DOMAIN vm.skills

\* the Literal pair of every numeric input
RECURSIVE Preamble(_)
Preamble(input) ==
    IF input = <<>> THEN <<>>
    ELSE IF Head(input).t = "Number"
         THEN <<NumOf(OpLiteral), Head(input).n>> \o Preamble(Tail(input))
         ELSE Preamble(Tail(input))

\* build_program: the program_buf contents it can leave, logic_start being
\* Len(Preamble(input))
build_program(vm, input, target_len, random_bias) ==
    LET ops == IF random_bias THEN choose_random_op_with_bias(vm)
               ELSE choose_op_with_stdp(vm)
    IN  {Preamble(input) \o Prog(logic) \o <<NumOf(OpHalt)>> :
            logic \in [1..target_len -> ops]}

\* define_skill
define_skill(vm, id, logic) ==
    [vm EXCEPT !.skills = [k \in DOMAIN @ \cup {id} |-> IF k = id THEN logic ELSE @[k]]]

\* generate_random_id: the ids it can return; none when every id of the range
\* is registered, and the loop never ends
generate_random_id(vm) == IdRange \ DOMAIN vm.skills

\* register_or_find_skill without the search for an equal body
register_or_find_skill_always_new(vm, logic) ==
    {[vm |-> define_skill(vm, id, logic), id |-> id] : id \in generate_random_id(vm)}

\* register_or_find_skill: the [vm, id] it can end with
register_or_find_skill(vm, logic) ==
    LET found == {id \in DOMAIN vm.skills : vm.skills[id] = logic}
    IN  IF found # {} THEN {[vm |-> vm, id |-> id] : id \in found}
        ELSE {[vm |-> define_skill(vm, id, logic), id |-> id] : id \in generate_random_id(vm)}

\* register_or_find_skill(logic) never returns
NeverRegisters(vm, logic) ==
    /\ \A id \in DOMAIN vm.skills : vm.skills[id] # logic
    /\ generate_random_id(vm) = {}

\* speculate_new_skill: the [vm, program] it can end with; NeverRegisters is
\* the caller's to test
SpeculationWindows(prog, logic_start) ==
    LET logic_len == Max(0, Max(0, Len(prog) - 1) - logic_start)
    IN  IF logic_len < 2 THEN {}
        ELSE {w \in [size : 2..Min(5, logic_len), start : logic_start..(Len(prog) - 1)] :
                 w.start <= Max(0, (Len(prog) - 1) - w.size)}

Pattern(prog, w) == SubSeq(prog, w.start + 1, w.start + w.size)

speculate_new_skill(vm, prog, logic_start) ==
    IF SpeculationWindows(prog, logic_start) = {} THEN {[vm |-> vm, program |-> prog]}
    ELSE UNION {
           {[vm |-> r.vm,
             program |-> SubSeq(prog, 1, w.start) \o <<NumOf(r.id)>>
                         \o SubSeq(prog, w.start + w.size + 1, Len(prog))] :
                r \in register_or_find_skill(vm, Pattern(prog, w))} :
           w \in SpeculationWindows(prog, logic_start)}

\* mutate_program: the programs it can leave
mutate_program(vm, prog, logic_start) ==
    IF Len(prog) <= logic_start + 1 THEN {prog}
    ELSE LET mutable_range == logic_start..(Len(prog) - 2)
             swaps == IF Len(prog) > logic_start + 2
                      THEN {[prog EXCEPT ![i + 1] = prog[j + 1], ![j + 1] = prog[i + 1]] :
                               i \in mutable_range, j \in mutable_range}
                      ELSE {}
             replacements == {[prog EXCEPT ![i + 1] = NumOf(op)] :
                                 i \in mutable_range, op \in choose_random_op_with_bias(vm)}
         IN  swaps \cup replacements

\* keeping the latest candidate whatever it scored
improve_always(s, prog, fitness, better) ==
    [s EXCEPT !.best_fitness = fitness, !.best_program = Some(prog)]

\* if fitness > best_fitness { best_fitness = fitness; best_program = ... }
improve(s, prog, fitness, better) ==
    IF better THEN [s EXCEPT !.best_fitness = fitness, !.best_program = Some(prog)]
    ELSE s

(***************************************************************************)
(* The Trainer's state machine.  One action is one iteration of the loops  *)
(* of synthesize, from the draw of r to the `continue`, the return or the  *)
(* panic that ends it.                                                     *)
(***************************************************************************)
Numbers(ints) == [i \in 1..Len(ints) |-> Number(NumOf(ints[i]))]

\* an oracle and an input, as the input and what evaluate returns for it
Goal(input, expected) == [input |-> input, expected |-> expected]

Successor == Goal(Numbers(<<3>>), Numbers(<<4>>))
Sum == Goal(Numbers(<<1, 2>>), Numbers(<<3>>))
Tagged == Goal(<<Nil, Nil>> \o Numbers(<<1>>), Numbers(<<2>>))
Nothing == Goal(<<>>, <<>>)

\* skills loaded under ids beyond the range of generate_random_id: 2001
\* increments, 2002 is a Literal without its immediate, 2003 calls both
StaleLibrary ==
    [id \in 2001..2003 |->
        IF id = 2001 THEN Prog(<<OpInc>>)
        ELSE IF id = 2002 THEN Prog(<<OpLiteral>>)
        ELSE Prog(<<2002, 2001>>)]

\* every id generate_random_id can draw is registered
FullLibrary == [id \in IdRange |-> Prog(<<OpInc>>)]

\* skills the VM defined for itself before the Trainer got it: a run of the
\* first body registered it under 2004 and 2005, a later run of the second
\* registered that one under 2005
TwiceEvolved == Prog(<<OpLiteral, 2004, OpEvolve, OpLiteral, 2005, OpEvolve, OpHalt>>)
OnceEvolved == Prog(<<OpLiteral, 2005, OpEvolve, OpHalt>>)
EvolvedLibrary == [id \in 2004..2005 |-> IF id = 2004 THEN TwiceEvolved ELSE OnceEvolved]

\* the library the VM is given, the max_program_len of the Trainer and the
\* goal of its synthesize calls (main.rs passes the same one to both calls)
Setup(lib, len, g) == [skills |-> lib, max_program_len |-> len, goal |-> g]

TrainerSetups ==
    {Setup(StaleLibrary, 1, Successor),
     Setup(FullLibrary, 1, Sum),
     Setup(EmptyLibrary, 2, Sum),
     Setup(EmptyLibrary, 1, Tagged),
     Setup(EmptyLibrary, 1, Nothing),
     Setup(EvolvedLibrary, 1, Successor)}

\* Trainer::new(SoulGainVM::new(vec![]), max_program_len), skills loaded
TrainerInit ==
    \E setup \in TrainerSetups :
        /\ NewVM(Scenario(<<>>, <<>>, setup.skills, FALSE))
        /\ max_program_len = setup.max_program_len
        /\ goal = setup.goal
        /\ synth = NoSynth
        /\ tpc = "idle"
        /\ result = None
        /\ drawn = 0
        /\ attempts = 0
        /\ tlog = EmptyLog

\* the VM the Trainer holds
Held == [Self EXCEPT !.cont = FALSE, !.exit = exit]

\* plasticity.observe(event)
observe(vm, event) == [vm EXCEPT !.sent = Append(@, <<event>>)]

\* the VM's fields become those of vm
HoldVM(vm) ==
    /\ program' = vm.program
    /\ stack' = vm.stack
    /\ call_stack' = vm.call_stack
    /\ program_stack' = vm.program_stack
    /\ ip' = vm.ip
    /\ memory' = vm.memory
    /\ skills' = vm.skills
    /\ skill_meta' = vm.skill_meta
    /\ last_event' = vm.last_event
    /\ trace' = vm.trace
    /\ recent_opcodes' = vm.recent_opcodes
    /\ tick' = vm.tick
    /\ total_reward' = vm.total_reward
    /\ error_count' = vm.error_count
    /\ sent' = vm.sent
    /\ recorded' = vm.recorded
    /\ cycles' = vm.cycles
    /\ exit' = vm.exit
    /\ UNCHANGED <<deterministic_mode, pc, max_cycles, runs, at_start, last, origin,
                   runlog, max_program_len, goal, drawn>>
    /\ UNCHANGED <<pvars, mlog>>

\* the counters of the two for loops
LoopsDone(s) == s.level_attempt >= s.attempts_limit /\ s.current_len >= max_program_len

NextIteration(s) ==
    IF s.level_attempt < s.attempts_limit THEN [s EXCEPT !.level_attempt = @ + 1]
    ELSE [s EXCEPT !.current_len = @ + 1, !.level_attempt = 1]

\* how an iteration ends: the VM, the locals of synthesize, the history, where
\* the Trainer is and what synthesize has returned
Outcome(vm, s, log, where, res) ==
    [vm |-> vm, synth |-> s, tlog |-> log, tpc |-> where, result |-> res]

\* the iteration ends without a return: the loops go on, or synthesize
\* returns None after the last one
EndIteration(vm, s, log) ==
    IF LoopsDone(s) THEN Outcome(vm, s, log, "returned", None)
    ELSE Outcome(vm, NextIteration(s), log, "searching", None)

Return(vm, s, log, prog) == Outcome(vm, s, log, "returned", Some(prog))

\* the slice current_program[logic_start..] is out of range
Panic(vm) == Outcome(vm, synth, tlog, "panicked", result)

\* generate_random_id is entered with every id registered
NeverReturns(vm, s, log) == Outcome(vm, s, log, "drawing_id", result)

\* lines 79 to 115 for the candidate current_program: the ways they can end
Attempt(vm0, current_program, logic_start, strategy) ==
    IF logic_start > Len(current_program) THEN {Panic(vm0)}
    ELSE
    LET logic == SubSeq(current_program, logic_start + 1, Len(current_program))
        clean_logic == IF logic # <<>> /\ Top(logic) = NumOf(OpHalt)
                       THEN Pop(logic) ELSE logic
    IN  IF logic \in synth.failed_attempts THEN {EndIteration(vm0, synth, tlog)}
        ELSE UNION {
          LET fitness == calculate_fitness(vm1.stack, synth.expected)
              log == [tlog EXCEPT
                        !.trials = @ + 1,
                        !.scored = @ \cup {<<current_program, fitness>>},
                        !.trial = [program |-> current_program, logic |-> logic,
                                   strategy |-> strategy, entry |-> AtEntry(vm0),
                                   result |-> vm1.stack, fitness |-> fitness]]
          IN  UNION {
                LET s1 == improve([synth EXCEPT !.failed_attempts = @ \cup {logic}],
                                  current_program, fitness, c.better)
                    vm2 == IF c.better /\ c.rewarded
                           THEN observe(vm1, Reward(AsPercent(fitness))) ELSE vm1
                IN  IF ~c.done THEN {EndIteration(vm2, s1, log)}
                    ELSE IF clean_logic = <<>>
                    THEN {Return(vm2, s1, log, current_program)}
                    ELSE IF NeverRegisters(vm2, clean_logic)
                    THEN {NeverReturns(vm2, s1, log)}
                    ELSE {Return(r.vm, s1, log,
                                 SubSeq(current_program, 1, logic_start)
                                 \o <<NumOf(r.id), NumOf(OpHalt)>>) :
                             r \in register_or_find_skill(vm2, clean_logic)} :
                c \in [better : FitnessGreater(fitness, synth.best_fitness),
                       rewarded : FitnessGreater(fitness, Tenth),
                       done : FitnessAtLeast(fitness, SuccessThreshold)]} :
          vm1 \in {execute_program(vm0, current_program)}}

\* the Trainer goes on from the end of the iteration
Take(o) ==
    /\ HoldVM(o.vm)
    /\ synth' = o.synth
    /\ tlog' = o.tlog
    /\ tpc' = o.tpc
    /\ result' = o.result
    /\ attempts' = attempts + 1

\* synthesize(oracle, input, attempts_limit) up to the first iteration
Synthesize ==
    /\ tpc \in {"idle", "returned"}
    /\ \E attempts_limit \in 0..MaxTrials :
          LET iterations == max_program_len * attempts_limit
          IN  /\ tlog.planned + Max(1, iterations) <= MaxTrials
              /\ synth' = [NoSynth EXCEPT !.input = goal.input,
                                          !.expected = goal.expected,
                                          !.attempts_limit = attempts_limit,
                                          !.current_len = 1, !.level_attempt = 1]
              /\ tpc' = IF iterations = 0 THEN "returned" ELSE "searching"
              /\ tlog' = [EmptyLog EXCEPT !.calls = tlog.calls + 1,
                                          !.planned = tlog.planned + Max(1, iterations)]
    /\ result' = None
    /\ attempts' = 0
    /\ UNCHANGED <<program, stack, call_stack, program_stack, ip, memory, skills,
                   skill_meta, deterministic_mode, last_event, trace, recent_opcodes,
                   tick, total_reward, error_count, sent, pc, cycles, max_cycles,
                   exit, runs, recorded, at_start, last, origin, runlog>>
    /\ UNCHANGED <<max_program_len, goal, drawn>>
    /\ UNCHANGED <<pvars, mlog>>

Searching == tpc = "searching"
input_preamble_len == Len(synth.input) * 2

\* try_invention: best_fitness < 0.1 and r < 0.5
Invented ==
    UNION {
      IF NeverRegisters(Held, Prog(logic)) THEN {NeverReturns(Held, synth, tlog)}
      ELSE UNION {
             UNION {Attempt(r.vm, p, Len(Preamble(synth.input)), "INVENT") :
                      p \in {IF Len(b) > Len(Preamble(synth.input))
                             THEN [b EXCEPT ![Len(b) - 1] = NumOf(r.id)] ELSE b :
                                b \in build_program(r.vm, synth.input, 1, FALSE)}} :
             r \in register_or_find_skill(Held, Prog(logic))} :
      logic \in [1..synth.current_len -> choose_random_op_with_bias(Held)]}

Invent ==
    /\ Searching
    /\ TRUE \in FitnessLess(synth.best_fitness, Tenth)
    /\ \E o \in Invented : Take(o)

\* try_speculation: no invention, best_fitness > 0.0 and r < 0.2
Speculated ==
    UNION {
      (IF \E w \in SpeculationWindows(variant, input_preamble_len) :
              NeverRegisters(Held, Pattern(variant, w))
       THEN {NeverReturns(Held, synth, tlog)} ELSE {})
      \cup UNION {Attempt(r.vm, r.program, input_preamble_len, "SPEC") :
                    r \in speculate_new_skill(Held, variant, input_preamble_len)} :
      variant \in (IF synth.best_program.some THEN {synth.best_program.program}
                   ELSE build_program(Held, synth.input, synth.current_len, TRUE))}

Speculate ==
    /\ Searching
    /\ FALSE \in FitnessLess(synth.best_fitness, Tenth)
    /\ TRUE \in FitnessGreater(synth.best_fitness, ZeroFitness)
    /\ \E o \in Speculated : Take(o)

\* try_mutation: neither of the above and best_fitness > 0.0
Mutated ==
    UNION {Attempt(Held, variant, input_preamble_len, "MUTATE") :
             variant \in mutate_program(Held, synth.best_program.program,
                                        input_preamble_len)}

Mutate ==
    /\ Searching
    /\ TRUE \in FitnessGreater(synth.best_fitness, ZeroFitness)
    /\ synth.best_program.some
    /\ \E o \in Mutated : Take(o)

\* none of the three: best_fitness is 0.0 and r >= 0.5
Randomized ==
    UNION {Attempt(Held, p, Len(Preamble(synth.input)), "RANDOM") :
             p \in build_program(Held, synth.input, synth.current_len, TRUE)}

Random ==
    /\ Searching
    /\ FALSE \in FitnessGreater(synth.best_fitness, ZeroFitness)
    /\ \E o \in Randomized : Take(o)

\* one more turn of the loop of generate_random_id: the id drawn is registered
DrawId ==
    /\ tpc = "drawing_id"
    /\ \E id \in IdRange :
          /\ id \in DOMAIN skills
          /\ drawn' = id
    /\ UNCHANGED <<program, stack, call_stack, program_stack, ip, memory, skills,
                   skill_meta, deterministic_mode, last_event, trace, recent_opcodes,
                   tick, total_reward, error_count, sent, pc, cycles, max_cycles,
                   exit, runs, recorded, at_start, last, origin, runlog>>
    /\ UNCHANGED <<max_program_len, goal, synth, tpc, result, attempts, tlog>>
    /\ UNCHANGED <<pvars, mlog>>

TrainerNext == Synthesize \/ Invent \/ Speculate \/ Mutate \/ Random \/ DrawId

TrainerSpec == TrainerInit /\ [][TrainerNext]_vars

\* an iteration of the loops of synthesize: the step that counts one more
\* attempt, which Invent, Speculate, Mutate and Random are and which one of
\* them can take whenever the Trainer is searching
Iterate == Searching /\ attempts' = attempts + 1

\* synthesize runs on the main thread and nothing suspends it: the loops
\* of synthesize and of generate_random_id go on while they can
TrainerLive == TrainerSpec /\ WF_attempts(Iterate) /\ WF_vars(DrawId)

(***************************************************************************)
(* calculate_fitness on its own: the VM has halted with some final stack,  *)
(* the oracle expects some sequence, and the Trainer scores the one        *)
(* against the other.                                                      *)
(***************************************************************************)
MaxResultLen == 2       \* length of the final stacks and expected sequences scored

FitnessInit ==
    \E res \in SeqsUpTo(ProbeValues, MaxResultLen),
       expected \in SeqsUpTo(ProbeValues, MaxResultLen) :
        /\ NewVM(Scenario(<<>>, res, EmptyLibrary, FALSE))
        /\ max_program_len = 1
        /\ goal = Goal(<<>>, expected)
        /\ synth = NoSynth
        /\ tpc = "idle"
        /\ result = None
        /\ drawn = 0
        /\ attempts = 0
        /\ tlog = EmptyLog

\* let fitness = self.calculate_fitness(&result, &expected)
Score ==
    /\ tlog.trial.strategy = "none"
    /\ tlog' = [tlog EXCEPT !.trial.strategy = "scored",
                            !.trial.result = stack,
                            !.trial.fitness = calculate_fitness(stack, goal.expected)]
    /\ UNCHANGED <<program, stack, call_stack, program_stack, ip, memory, skills,
                   skill_meta, deterministic_mode, last_event, trace, recent_opcodes,
                   tick, total_reward, error_count, sent, pc, cycles, max_cycles,
                   exit, runs, recorded, at_start, last, origin, runlog>>
    /\ UNCHANGED <<max_program_len, goal, synth, tpc, result, drawn, attempts>>
    /\ UNCHANGED <<pvars, mlog>>

FitnessSpec == FitnessInit /\ [][Score]_vars

(***************************************************************************)
(* plasticity.rs: the channel, the worker thread and the weight store.     *)
(* Time is counted in twelfths of WINDOW_S and weights in thousandths; the *)
(* main thread's calls are atomic steps; the worker's update of the store  *)
(* takes the lock, writes the deltas, then normalises and releases.        *)
(***************************************************************************)
MaxOps == 3     \* the main thread's calls on its Plasticity handles, plus the times
                \* the clock is seen to have advanced, by half a window each

WINDOW == 12
A_PLUS == 100
A_MINUS == 120
REWARD_BOOST == 500
NORMALIZATION_CAP == 5000
LONG_DECAY == 999
IMPRINTED == 10000
HalfWindow == WINDOW \div 2

\* exp(-dt / TAU) in thousandths, for dt = 1 .. 11 twelfths of WINDOW_S
ExpDecay == <<659, 435, 287, 189, 125, 82, 54, 36, 24, 16, 10>>

\* a / b rounded to the nearest integer, b > 0
RoundDiv(a, b) == (2 * a + b) \div (2 * b)

NoWeights == [edge \in {} |-> 0]
Outgoing(w, from) == {edge \in DOMAIN w : edge[1] = from}
Sources(w) == {edge[1] : edge \in DOMAIN w}

RECURSIVE SumWeights(_, _)
SumWeights(w, edges) ==
    IF edges = {} THEN 0
    ELSE LET edge == CHOOSE e \in edges : TRUE
         IN  w[edge] + SumWeights(w, edges \ {edge})

\* *weight += delta, on entry(from).or_insert_with(HashMap::new).entry(to).or_insert(0.0)
add_delta(w, u) ==
    LET edge == <<u.from, u.to>>
    IN  [e \in DOMAIN w \cup {edge} |->
            IF e = edge THEN (IF e \in DOMAIN w THEN w[e] ELSE 0) + u.delta ELSE w[e]]

\* the normalisation of one source: the sum is over all its weights
normalize(w, from) ==
    LET sum == SumWeights(w, Outgoing(w, from))
    IN  IF sum > NORMALIZATION_CAP
        THEN [e \in DOMAIN w |->
                 IF e[1] = from THEN RoundDiv(w[e] * NORMALIZATION_CAP, sum) ELSE w[e]]
        ELSE w

RECURSIVE apply_updates(_, _)
apply_updates(w, updates) ==
    IF updates = <<>> THEN w ELSE apply_updates(add_delta(w, Head(updates)), Tail(updates))

RECURSIVE normalize_all(_, _)
normalize_all(w, sources) ==
    IF sources = {} THEN w
    ELSE LET from == CHOOSE s \in sources : TRUE
         IN  normalize_all(normalize(w, from), sources \ {from})

\* current_time.duration_since(t), which is zero when t is the later instant
duration_since(current_time, t) == Max(0, current_time - t)

\* recent_events.retain(..)
retain(recent, current_time) ==
    SelectSeq(recent, LAMBDA r : duration_since(current_time, r.time) < WINDOW)

InWindow(past, current_time) ==
    LET delta_t == duration_since(current_time, past.time)
    IN  ~(delta_t <= 0 \/ delta_t >= WINDOW)

\* the ordinary STDP rule applied to rewards and errors too
updates_for_stdp_only(past, current_event, delta_t) ==
    <<[from |-> past, to |-> current_event,
       delta |-> RoundDiv(A_PLUS * ExpDecay[delta_t], 1000)],
      [from |-> current_event, to |-> past,
       delta |-> 0 - RoundDiv(A_MINUS * ExpDecay[delta_t], 1000)]>>

\* the updates one buffered event contributes
updates_for(past, current_event, delta_t) ==
    IF current_event.ev = "Reward"
    THEN IF current_event.arg > 0
         THEN <<[from |-> past, to |-> current_event,
                 delta |-> RoundDiv(REWARD_BOOST * current_event.arg * ExpDecay[delta_t],
                                    100 * 1000)]>>
         ELSE <<>>
    ELSE IF current_event.ev = "Error"
    THEN <<[from |-> past, to |-> current_event,
            delta |-> 0 - RoundDiv(REWARD_BOOST * ExpDecay[delta_t], 1000)]>>
    ELSE <<[from |-> past, to |-> current_event,
            delta |-> RoundDiv(A_PLUS * ExpDecay[delta_t], 1000)],
           [from |-> current_event, to |-> past,
            delta |-> 0 - RoundDiv(A_MINUS * ExpDecay[delta_t], 1000)]>>

RECURSIVE collect_updates(_, _, _)
collect_updates(recent, current_event, current_time) ==
    IF recent = <<>> THEN <<>>
    ELSE (IF InWindow(Head(recent), current_time)
          THEN updates_for(Head(recent).event, current_event,
                           duration_since(current_time, Head(recent).time))
          ELSE <<>>)
         \o collect_updates(Tail(recent), current_event, current_time)

collect_sources(recent, current_event, current_time) ==
    {recent[i].event : i \in {j \in 1..Len(recent) :
        /\ InWindow(recent[j], current_time)
        /\ ~(current_event.ev = "Reward" /\ current_event.arg <= 0)}}

\* the times the worker gives the events of a batch
batch_times(events, now) ==
    LET len == Len(events)
        step == IF len > 1 THEN WINDOW \div len ELSE 0
    IN  [i \in 1..len |-> [event |-> events[i], time |-> now - (len - i) * step]]

Single(event, now) == [kind |-> "Single", events |-> <<event>>, time |-> now]
Batch(events) == [kind |-> "Batch", events |-> events, time |-> 0]

\* rx.recv() on a channel that holds a message
recv_newest(ch) == [message |-> ch[Len(ch)], rest |-> SubSeq(ch, 1, Len(ch) - 1)]
recv(ch) == [message |-> Head(ch), rest |-> Tail(ch)]

\* save_to_file's entries, in the order the maps iterate
RECURSIVE entries_of(_, _)
entries_of(w, edges) ==
    IF edges = {} THEN <<>>
    ELSE LET edge == CHOOSE e \in edges : TRUE
         IN  <<[from |-> edge[1], to |-> edge[2], weight |-> w[edge]]>>
             \o entries_of(w, edges \ {edge})

\* load_from_file's loop over the entries
RECURSIVE insert_entries(_, _)
insert_entries(w, entries) ==
    IF entries = <<>> THEN w
    ELSE LET entry == Head(entries)
             edge == <<entry.from, entry.to>>
         IN  insert_entries([e \in DOMAIN w \cup {edge} |->
                                IF e = edge THEN entry.weight ELSE w[e]],
                            Tail(entries))

\* PersistentMemory::load_from_file merged into the store instead of replacing it
load_merged(w, entries) == insert_entries(w, entries)
load_from_file(w, entries) == insert_entries(NoWeights, entries)

\* outgoing.iter().max_by(partial_cmp): any target of the largest weight
best_next_event(w, from) ==
    IF Outgoing(w, from) = {} THEN {NoEvent}
    ELSE {edge[2] : edge \in {e \in Outgoing(w, from) :
                                 \A o \in Outgoing(w, from) : w[o] <= w[e]}}

\* the events the main thread sends
Lit1 == OpcodeEvent(OpLiteral, 1)
Add0 == OpcodeEvent(OpAdd, 0)
Skill1 == OpcodeEvent(SKILL_OPCODE_BASE, 1)
Singles == {Reward(100), Reward(0), Error(StackUnderflow)}
Batches == {<<>>, <<Lit1, Add0>>, <<Add0, Lit1, Add0>>}

\* the store of an earlier process that imprinted Skill1 after Lit1 and then
\* observed a batch and a reward, and the files it may have left
Earlier ==
    [edge \in {<<Lit1, Add0>>, <<Lit1, Reward(100)>>, <<Lit1, Skill1>>, <<Add0, Lit1>>} |->
        CASE edge = <<Lit1, Add0>> -> 4
          [] edge = <<Lit1, Reward(100)>> -> 20
          [] edge = <<Lit1, Skill1>> -> 4976
          [] OTHER -> -10]
Files ==
    {NoFile,
     [present |-> TRUE, intact |-> TRUE, entries |-> entries_of(Earlier, DOMAIN Earlier)]}

PlasticityInit ==
    \E f \in Files :
        /\ StartedWith(Scenario(<<>>, <<>>, EmptyLibrary, FALSE), f)
        /\ NoTrainer

\* what no call on a Plasticity handle touches
rest_of_vm ==
    <<program, stack, call_stack, program_stack, ip, memory, skills, skill_meta,
      deterministic_mode, last_event, trace, recent_opcodes, tick, total_reward,
      error_count, pc, cycles, max_cycles, exit, runs, recorded, at_start, last,
      origin, runlog, mlog>>

\* Instant::now(): the clock has advanced since it was last read, or has not
Now(spent) == {clock} \cup (IF plog.ops + spent < MaxOps THEN {clock + HalfWindow} ELSE {})
Ticked(log, now) == IF now = clock THEN log ELSE [log EXCEPT !.ops = @ + 1]

\* the main thread holds a handle and may make one more call
MayCall == senders > 0 /\ plog.ops < MaxOps /\ worker.pc # "killed"
Called == [plog EXCEPT !.ops = @ + 1]

\* self.memory.write() and self.memory.read() wait for the worker's release
LockIgnored == TRUE
LockFree == ~write_locked

\* the worker is between its first and its last write for one event
MidUpdate == worker.pc = "locked" /\ weights # worker.held

\* Plasticity::observe
Observe ==
    /\ MayCall
    /\ \E event \in Singles, now \in Now(1) :
        /\ channel' = Append(channel, Single(event, now))
        /\ sent' = Append(sent, <<event>>)
        /\ clock' = now
        /\ plog' = Ticked(Called, now)
    /\ UNCHANGED <<weights, senders, worker, recent_events, write_locked, file>>
    /\ UNCHANGED rest_of_vm
    /\ UNCHANGED tvars

\* Plasticity::observe_batch
ObserveBatch ==
    /\ MayCall
    /\ \E events \in Batches :
        /\ channel' = Append(channel, Batch(events))
        /\ sent' = Append(sent, events)
    /\ plog' = Called
    /\ UNCHANGED <<weights, senders, worker, recent_events, write_locked, clock, file>>
    /\ UNCHANGED rest_of_vm
    /\ UNCHANGED tvars

\* Plasticity::decay_long_term
DecayLongTerm ==
    /\ MayCall
    /\ LockFree
    /\ weights' = [e \in DOMAIN weights |-> RoundDiv(weights[e] * LONG_DECAY, 1000)]
    /\ plog' = [Called EXCEPT !.torn = @ \/ MidUpdate]
    /\ UNCHANGED <<channel, senders, worker, recent_events, write_locked, clock, file, sent>>
    /\ UNCHANGED rest_of_vm
    /\ UNCHANGED tvars

\* Trainer::imprint_skill
ImprintSkill ==
    /\ MayCall
    /\ LockFree
    /\ weights' = [e \in DOMAIN weights \cup {<<Lit1, Skill1>>} |->
                      IF e = <<Lit1, Skill1>> THEN IMPRINTED ELSE weights[e]]
    /\ plog' = [Called EXCEPT !.torn = @ \/ MidUpdate]
    /\ UNCHANGED <<channel, senders, worker, recent_events, write_locked, clock, file, sent>>
    /\ UNCHANGED rest_of_vm
    /\ UNCHANGED tvars

\* Plasticity::best_next_event
BestNextEvent ==
    /\ MayCall
    /\ LockFree
    /\ \E from \in Sources(weights) :
        \E best \in best_next_event(weights, from) :
            plog' = [Called EXCEPT !.torn = @ \/ MidUpdate, !.best = best]
    /\ UNCHANGED <<weights, channel, senders, worker, recent_events, write_locked, clock,
                   file, sent>>
    /\ UNCHANGED rest_of_vm
    /\ UNCHANGED tvars

\* Plasticity::save_to_file: the file is truncated on open, then written
SaveToFile ==
    /\ MayCall
    /\ LockFree
    /\ file' = [present |-> TRUE, intact |-> TRUE,
                entries |-> entries_of(weights, DOMAIN weights)]
    /\ plog' = [Called EXCEPT !.torn = @ \/ MidUpdate, !.loaded = "none"]
    /\ UNCHANGED <<weights, channel, senders, worker, recent_events, write_locked, clock,
                   sent>>
    /\ UNCHANGED rest_of_vm
    /\ UNCHANGED tvars

\* Plasticity::load_from_file
LoadFromFile ==
    /\ MayCall
    /\ IF file.present /\ file.intact
       THEN /\ LockFree
            /\ weights' = load_from_file(weights, file.entries)
            /\ plog' = [Called EXCEPT !.torn = @ \/ MidUpdate, !.loaded = "ok"]
       ELSE /\ plog' = [Called EXCEPT !.loaded = "error"]
            /\ UNCHANGED weights
    /\ UNCHANGED <<channel, senders, worker, recent_events, write_locked, clock, file, sent>>
    /\ UNCHANGED rest_of_vm
    /\ UNCHANGED tvars

\* Plasticity::clone
CloneHandle ==
    /\ MayCall
    /\ senders' = senders + 1
    /\ plog' = Called
    /\ UNCHANGED <<weights, channel, worker, recent_events, write_locked, clock, file, sent>>
    /\ UNCHANGED rest_of_vm
    /\ UNCHANGED tvars

\* a Plasticity handle goes out of scope
DropHandle ==
    /\ senders > 0
    /\ worker.pc # "killed"
    /\ senders' = senders - 1
    /\ UNCHANGED <<weights, channel, worker, recent_events, write_locked, clock, file, sent,
                   plog>>
    /\ UNCHANGED rest_of_vm
    /\ UNCHANGED tvars

\* main returns: its handles are dropped and the process ends, and with it
\* the worker thread, which nothing joins, and the store
ExitProcess ==
    /\ senders > 0
    /\ worker.pc \notin {"terminated", "killed"}
    /\ senders' = 0
    /\ worker' = [NoWork EXCEPT !.pc = "killed", !.batch = worker.batch]
    /\ weights' = NoWeights
    /\ recent_events' = <<>>
    /\ write_locked' = FALSE
    /\ UNCHANGED <<channel, clock, file, sent, plog>>
    /\ UNCHANGED rest_of_vm
    /\ UNCHANGED tvars

\* while let Ok(message) = rx.recv(), with a message in the channel
Recv ==
    /\ worker.pc = "recv"
    /\ channel # <<>>
    /\ channel' = recv(channel).rest
    /\ LET message == recv(channel).message
       IN  IF message.kind = "Single"
           THEN /\ worker' = [worker EXCEPT !.pc = "event",
                                  !.batch = <<[event |-> message.events[1],
                                               time |-> message.time]>>]
                /\ UNCHANGED <<clock, plog>>
           ELSE IF message.events = <<>>
           THEN UNCHANGED <<worker, clock, plog>>
           ELSE \E now \in Now(0) :
                    /\ worker' = [worker EXCEPT !.pc = "event",
                                      !.batch = batch_times(message.events, now)]
                    /\ clock' = now
                    /\ plog' = Ticked(plog, now)
    /\ UNCHANGED <<weights, senders, recent_events, write_locked, file, sent>>
    /\ UNCHANGED rest_of_vm
    /\ UNCHANGED tvars

\* rx.recv() fails: no sender is left and the channel is empty
Terminate ==
    /\ worker.pc = "recv"
    /\ channel = <<>>
    /\ senders = 0
    /\ worker' = [worker EXCEPT !.pc = "terminated"]
    /\ UNCHANGED <<weights, channel, senders, recent_events, write_locked, clock, file,
                   sent, plog>>
    /\ UNCHANGED rest_of_vm
    /\ UNCHANGED tvars

\* the worker after process_event has returned
NextEvent(w) ==
    [w EXCEPT !.pc = IF Len(w.batch) > 1 THEN "event" ELSE "recv",
              !.batch = Tail(w.batch), !.updates = <<>>, !.normalize_sources = {},
              !.held = <<>>, !.planned = <<>>]

\* process_event up to `if !updates.is_empty()`; with updates it takes the
\* write lock, without it returns
Collect ==
    /\ worker.pc = "event"
    /\ LET current == Head(worker.batch)
           kept == retain(recent_events, current.time)
           updates == collect_updates(kept, current.event, current.time)
       IN  IF updates = <<>>
           THEN /\ recent_events' = Append(kept, current)
                /\ worker' = NextEvent(worker)
                /\ plog' = [plog EXCEPT !.delivered = Append(@, current.event)]
                /\ UNCHANGED write_locked
           ELSE /\ recent_events' = kept
                /\ worker' = [worker EXCEPT
                       !.pc = "locked", !.current = current, !.updates = updates,
                       !.normalize_sources =
                           collect_sources(kept, current.event, current.time),
                       !.held = weights, !.planned = updates]
                /\ write_locked' = TRUE
                /\ UNCHANGED plog
    /\ UNCHANGED <<weights, channel, senders, clock, file, sent>>
    /\ UNCHANGED rest_of_vm
    /\ UNCHANGED tvars

\* for (from, to, delta) in updates { *weight += delta }
ApplyUpdates ==
    /\ worker.pc = "locked"
    /\ worker.updates # <<>>
    /\ weights' = apply_updates(weights, worker.updates)
    /\ worker' = [worker EXCEPT !.updates = <<>>]
    /\ UNCHANGED <<channel, senders, recent_events, write_locked, clock, file, sent, plog>>
    /\ UNCHANGED rest_of_vm
    /\ UNCHANGED tvars

\* for past_event in normalize_sources { .. }, then the write guard is dropped
\* and recent_events.push((current_event, current_time))
NormalizeAndRelease ==
    /\ worker.pc = "locked"
    /\ worker.updates = <<>>
    /\ weights' = normalize_all(weights, worker.normalize_sources)
    /\ write_locked' = FALSE
    /\ recent_events' = Append(recent_events, worker.current)
    /\ worker' = NextEvent(worker)
    /\ plog' = [plog EXCEPT !.delivered = Append(@, worker.current.event)]
    /\ UNCHANGED <<channel, senders, clock, file, sent>>
    /\ UNCHANGED rest_of_vm
    /\ UNCHANGED tvars

MainThread ==
    \/ Observe \/ ObserveBatch \/ DecayLongTerm \/ ImprintSkill \/ BestNextEvent
    \/ SaveToFile \/ LoadFromFile \/ CloneHandle \/ DropHandle \/ ExitProcess
WorkerThread == Recv \/ Terminate \/ Collect \/ ApplyUpdates \/ NormalizeAndRelease
PlasticityNext == MainThread \/ WorkerThread

PlasticitySpec == PlasticityInit /\ [][PlasticityNext]_vars

(***************************************************************************)
(* memory.rs: calls of MemorySystem::write and MemorySystem::read on a     *)
(* store, with the addresses the VM can pass.                              *)
(***************************************************************************)
MaxMemoryCalls == 3

\* 0, 2, 2 + 2^-30, the first address whose key saturates and one beyond it,
\* and the non-finite numbers
Addresses ==
    {NumOf(0), NumOf(2), Fin(2, 1), NumOf(-2), NumOf(QuantSat), NumOf(QuantSat + 1),
     NaN, PInf, NInf}

Stored == {Nil, Number(NumOf(2))}

MemoryInit ==
    /\ StartedWith(Scenario(<<>>, <<>>, EmptyLibrary, FALSE), NoFile)
    /\ NoTrainer

idle_vm ==
    <<program, stack, call_stack, program_stack, ip, skills, skill_meta,
      deterministic_mode, last_event, trace, recent_opcodes, tick, total_reward,
      error_count, sent, pc, cycles, max_cycles, exit, runs, recorded, at_start, last,
      origin, runlog>>

\* self.memory.write(addr, val)
Write ==
    /\ mlog.calls < MaxMemoryCalls
    /\ \E addr \in Addresses, val \in Stored :
        /\ memory' = memory_write(memory, addr, val).mem
        /\ mlog' = [mlog EXCEPT !.op = "write", !.addr = addr, !.val = val,
                       !.ok = memory_write(memory, addr, val).ok,
                       !.read = [some |-> FALSE, val |-> Nil],
                       !.before = memory,
                       !.written = Append(@, [addr |-> addr, val |-> val]),
                       !.calls = @ + 1]
    /\ UNCHANGED idle_vm
    /\ UNCHANGED tvars
    /\ UNCHANGED pvars

\* self.memory.read(addr)
Read ==
    /\ mlog.calls < MaxMemoryCalls
    /\ \E addr \in Addresses :
        mlog' = [mlog EXCEPT !.op = "read", !.addr = addr, !.val = Nil, !.ok = FALSE,
                    !.read = memory_read(memory, addr),
                    !.before = memory, !.calls = @ + 1]
    /\ UNCHANGED memory
    /\ UNCHANGED idle_vm
    /\ UNCHANGED tvars
    /\ UNCHANGED pvars

MemoryNext == Write \/ Read
MemorySpec == MemoryInit /\ [][MemoryNext]_vars

(***************************************************************************)
(* The two-value compare/swap template, run once on every pair of numbers  *)
(* of SortNumbers with a budget that lets it finish.                       *)
(***************************************************************************)
SortNumbers == {NumOf(2), NumOf(9), Fin(2, Half), NumOf(-3), PInf, NInf, NaN}

SortInit ==
    \E a \in SortNumbers, b \in SortNumbers :
        /\ NewVM(Scenario(CompareSwap, <<Number(a), Number(b)>>, EmptyLibrary, FALSE))
        /\ NoTrainer

SortNext == StartRunAmple \/ Over \/ Gt \/ JmpIf \/ Swap \/ Halt \/ ProgramEnd
SortSpec == SortInit /\ [][SortNext]_vars

(***************************************************************************)
(* Properties.  `last` describes the loop iteration that led to the        *)
(* current state and `last.before` the VM just before it.                  *)
(***************************************************************************)
RECURSIVE Flatten(_)
Flatten(batches) ==
    IF batches = <<>> THEN <<>> ELSE Head(batches) \o Flatten(Tail(batches))

\* the events recorded by the iteration just executed
StepEvents == SubSeq(recorded, last.before.nrecorded + 1, Len(recorded))
ErrorsIn(evs) == {i \in 1..Len(evs) : evs[i].ev = "Error"}
CountOf(evs, e) == Cardinality({i \in 1..Len(evs) : evs[i] = e})
Executed(op) == last.act = "primitive" /\ last.op = op
Before == last.before
ImmediatePresent == Before.ip + 1 < Len(Before.program)
Returned == pc = "returned"

\* C1: when run returns, the program-frame stack is what it was when run was
\* called, however run stopped.
C1_SkillBalance == Returned => program_stack = at_start.program_stack

\* C2: when run returns, the trace buffer is empty and every recorded event
\* has been sent to plasticity.
C2_TraceFlushedOnReturn == Returned => (trace = <<>> /\ Flatten(sent) = recorded)

\* C3: in every reachable state ip lies in [0, len(program)] of the program
\* being executed.
C3_IpInRange == ip >= 0 /\ ip <= Len(program)

\* C4: a primitive opcode that records Error(StackUnderflow) leaves the
\* operand stack as it was, records exactly one such event, and had fewer
\* operands than it pops.
C4_UnderflowLeavesStack ==
    (last.act = "primitive" /\ CountOf(StepEvents, Error(StackUnderflow)) > 0)
        => /\ stack = Before.stack
           /\ CountOf(StepEvents, Error(StackUnderflow)) = 1
           /\ Len(Before.stack) < op_inputs(last.op)

\* the operands an opcode accepts: Number pairs (or String pairs for Add) for
\* the arithmetic opcodes, a Number for Inc, Dec and Load, a Number address
\* for Store; every other opcode takes any value
IsNum(v) == v.t = "Number"
TypesAccepted(op, stk) ==
    LET n == Len(stk)
    IN  CASE op \in {OpSub, OpMul, OpMod, OpGt} -> IsNum(stk[n]) /\ IsNum(stk[n - 1])
          [] op = OpAdd -> \/ IsNum(stk[n]) /\ IsNum(stk[n - 1])
                           \/ stk[n].t = "String" /\ stk[n - 1].t = "String"
          [] op \in {OpInc, OpDec, OpLoad} -> IsNum(stk[n])
          [] op = OpStore -> IsNum(stk[n - 1])
          [] OTHER -> TRUE
TypedOps == {OpSub, OpMul, OpMod, OpGt, OpAdd, OpInc, OpDec, OpLoad, OpStore}

C6_TypeErrorsRecorded ==
    (/\ last.act = "primitive"
     /\ last.op \in TypedOps
     /\ Len(Before.stack) >= op_inputs(last.op)
     /\ ~TypesAccepted(last.op, Before.stack))
        => /\ CountOf(StepEvents, Error(InvalidOpcode(last.op))) = 1
           /\ Cardinality(ErrorsIn(StepEvents)) = 1
           /\ error_count = Before.error_count + 1

\* the opcode just executed transferred control: a jump or call to a valid
\* target, a return, a frame restore or a skill invocation
TargetValid == ImmediatePresent /\ JumpTarget(Before, Before.program[Before.ip + 2]).ok
Branched ==
    \/ last.op \in {OpJmp, OpCall} /\ TargetValid
    \/ last.op = OpJmpIf /\ TargetValid /\ Before.stack # <<>> /\ is_truthy(Top(Before.stack))
    \/ last.op = OpRet /\ Before.call_stack # <<>>
    \/ last.op \in {OpHalt, OpIntuition} /\ program_stack # Before.program_stack

\* C7: an opcode that does not branch advances ip by the cells it consumes:
\* 2 for Literal, Jmp, JmpIf and Call (also a JmpIf not taken or failing with
\* StackUnderflow), 1 for the others.
C7_IpAdvance ==
    (last.act = "primitive" /\ ~Branched)
        => ip = Before.ip + (IF HasImmediate(last.op) /\ ImmediatePresent THEN 2 ELSE 1)

\* C8: a cell decodes to round(x) iff it is finite and within 1e-9 of
\* round(x); any other cell, and any decoded integer below 1000 that is no
\* primitive opcode, records exactly one Error(InvalidOpcode), leaves the
\* operand, call and frame stacks alone, flushes the trace, and execution
\* goes on at the next cell.
WithinTolerance(x) == x.k = "fin" /\ (Abs(x.f) <= 1 \/ Abs(x.f) >= Frac - 1)
C8_Decoding ==
    /\ last.act \in {"primitive", "skill", "unknown"}
          => WithinTolerance(last.raw) /\ last.op = Round(last.raw)
    /\ last.act = "decode_error" => ~WithinTolerance(last.raw)
    /\ last.act = "unknown" => last.op < SKILL_OPCODE_BASE /\ last.op \notin PrimitiveOps
    /\ last.act \in {"decode_error", "unknown"}
          => /\ Len(StepEvents) = 1
             /\ StepEvents[1].ev = "Error" /\ StepEvents[1].kind = "InvalidOpcode"
             /\ error_count = Before.error_count + 1
             /\ stack = Before.stack
             /\ call_stack = Before.call_stack
             /\ program_stack = Before.program_stack
             /\ trace = <<>>
             /\ Flatten(sent) = recorded
             /\ program = Before.program
             /\ ip = Before.ip + 1
             /\ pc = "running"

C8_Witness ==
    /\ last.act = "decode_error"
    /\ last.raw = Fin(8, 2)
    /\ StepEvents = <<Error(InvalidOpcode(8))>>

\* C9: Halt inside a macro body restores the caller's program and saved ip
\* (the cell after the skill opcode) and run goes on; Halt with an empty
\* program-frame stack ends run.
C9_HaltUnwindsOneFrame ==
    /\ Executed(OpHalt) =>
          IF Before.program_stack # <<>>
          THEN /\ pc = "running"
               /\ program_stack = Pop(Before.program_stack)
               /\ program = Top(Before.program_stack).program
               /\ ip = Top(Before.program_stack).ip
          ELSE /\ Returned
               /\ exit = "halt"
               /\ program = Before.program
    /\ (last.act = "skill" /\ last.op \in DOMAIN Before.skills)
          => /\ program_stack = Append(Before.program_stack, Top(program_stack))
             /\ Top(program_stack).program = Before.program
             /\ Top(program_stack).ip = Before.ip + 1
    /\ (Returned /\ exit = "halt") => (Executed(OpHalt) /\ Before.program_stack = <<>>)

C9_Witness ==
    /\ Executed(OpHalt)
    /\ Len(Before.program_stack) = 2
    /\ Len(program_stack) = 1
    /\ pc = "running"

\* C10: run decodes at most max_cycles cells and then returns, tick grows by
\* the number of cells decoded (a frame restore decodes none), and the hot
\* loop records no Error and has an empty stack whenever ip is back at 0.
RunMeasure == 2 * (max_cycles - cycles) + Len(program_stack)
C10_Safety ==
    /\ cycles <= max_cycles
    /\ pc # "idle" => tick = at_start.tick + cycles
    /\ pc = "running" => RunMeasure >= 0
    /\ last.act = "restore" => cycles = Before.cycles /\ tick = Before.tick
    /\ last.act \in {"primitive", "skill", "unknown", "decode_error"}
          => cycles = Before.cycles + 1
    /\ (program = HotLoop /\ program_stack = <<>>)
          => /\ ErrorsIn(recorded) = {}
             /\ ip = 0 => stack = <<>>
C10_BudgetBoundsRun ==
    /\ []C10_Safety
    /\ [][(pc = "running" /\ pc' = "running") => RunMeasure' < RunMeasure]_vars

C10_Witness ==
    /\ program = HotLoop
    /\ ip = 0
    /\ tick = 5
    /\ stack = <<>>

RECURSIVE SumOf(_)
SumOf(ns) == IF ns = <<>> THEN 0 ELSE Head(ns) + SumOf(Tail(ns))

\* the fields of a VM that resumption is about
Resumable(vm) ==
    [program |-> vm.program, ip |-> vm.ip, stack |-> vm.stack,
     call_stack |-> vm.call_stack, program_stack |-> vm.program_stack,
     memory |-> vm.memory, skills |-> vm.skills, tick |-> vm.tick,
     recorded |-> vm.recorded]

\* every run before the last one returned because its budget was used up
EarlierRunsExhausted ==
    /\ runs >= 2
    /\ Len(runlog.exits) = runs
    /\ \A i \in 1..(runs - 1) : runlog.exits[i] = "budget"

\* C11: when run(a) returns on budget exhaustion, a following run(b) leaves
\* the VM (program, ip, the three stacks, memory, skills, tick, events recorded)
\* as one run(a + b) from the same initial state does.
C11_BudgetResumable ==
    (Returned /\ EarlierRunsExhausted)
        => Resumable(Self) = Resumable(run(origin, SumOf(runlog.budgets), runlog.picks))

C11_Witness ==
    /\ Returned
    /\ EarlierRunsExhausted
    /\ runlog.budgets = <<2, MaxCycles>>
    /\ runlog.exits = <<"budget", "halt">>
    /\ cycles >= 2
    /\ program_stack = <<>>
    /\ Len(origin.program) > 4

ControlOps == {OpJmp, OpJmpIf, OpCall, OpRet, OpHalt, OpEvolve, OpIntuition}

\* the cells of body read as opcodes from idx (0-based) on are primitive opcodes
\* other than the control opcodes
RECURSIVE StraightFrom(_, _)
StraightFrom(body, idx) ==
    IF idx >= Len(body) THEN TRUE
    ELSE LET c == decode_opcode(body[idx + 1])
         IN  /\ c.ok
             /\ c.op \in PrimitiveOps \ ControlOps
             /\ StraightFrom(body, IF HasImmediate(c.op) THEN idx + 2 ELSE idx + 1)

StraightLine(body) == StraightFrom(body, 0)

\* the loop body repeated until vm is back at `depth` program frames
RECURSIVE UntilReturned(_, _, _)
UntilReturned(vm, depth, fuel) ==
    IF ~vm.cont \/ Len(vm.program_stack) <= depth \/ fuel = 0 THEN vm
    ELSE UntilReturned(run_iteration(vm, 0), depth, fuel - 1)

\* the loop body repeated until ip has passed cell `stop`
RECURSIVE UntilPast(_, _, _)
UntilPast(vm, stop, fuel) ==
    IF ~vm.cont \/ vm.ip >= stop \/ fuel = 0 THEN vm
    ELSE UntilPast(run_iteration(vm, 0), stop, fuel - 1)

\* a skill's body has just replaced the caller's program
JustInvoked == last.act = "skill" /\ Len(program_stack) = Len(Before.program_stack) + 1

\* the caller's program with the skill opcode replaced by the cells of the body
Inlined ==
    SubSeq(Before.program, 1, Before.ip) \o program
        \o SubSeq(Before.program, Before.ip + 2, Len(Before.program))

ViaMacro == UntilReturned(Self, Len(Before.program_stack), Len(program) + 1)

ViaInline ==
    UntilPast([Self EXCEPT !.program = Inlined, !.ip = Before.ip,
                           !.program_stack = Before.program_stack],
              Before.ip + Len(program), Len(program))

\* every Literal of a straight-line body is followed by its immediate cell
RECURSIVE CompleteFrom(_, _)
CompleteFrom(body, idx) ==
    IF idx >= Len(body) THEN TRUE
    ELSE IF HasImmediate(decode_opcode(body[idx + 1]).op)
    THEN idx + 1 < Len(body) /\ CompleteFrom(body, idx + 2)
    ELSE CompleteFrom(body, idx + 1)

Complete(body) == CompleteFrom(body, 0)

MacroAgreesWithInline ==
    /\ ViaMacro.cont
    /\ ViaMacro.program_stack = Before.program_stack
    /\ ViaMacro.program = Before.program
    /\ ViaMacro.ip = Before.ip + 1
    /\ ViaMacro.stack = ViaInline.stack
    /\ ViaMacro.memory = ViaInline.memory

C13_DepthBucket ==
    \A i \in 1..Len(StepEvents) :
        StepEvents[i].ev = "Opcode" => StepEvents[i].depth = Min(Len(Before.stack), 5)

\* C14: every cell that decodes to a primitive opcode or a skill id records
\* exactly one Opcode event for that opcode, ahead of every other event of
\* the cell, also when the opcode fails with StackUnderflow.
C14_OpcodeEventFirst ==
    last.act \in {"primitive", "skill"}
        => /\ StepEvents # <<>>
           /\ StepEvents[1].ev = "Opcode"
           /\ StepEvents[1].arg = last.op
           /\ Cardinality({i \in 1..Len(StepEvents) : StepEvents[i].ev = "Opcode"}) = 1

\* C15: every key of the skill library is an integer >= SKILL_OPCODE_BASE,
\* whatever Number Evolve popped as the id.
C15_SkillIdsAreSkillOpcodes == \A id \in DOMAIN skills : id >= SKILL_OPCODE_BASE

(***************************************************************************)
(* The Trainer.  tlog.trial describes the last trial of the synthesize     *)
(* call in progress, tlog.trial.entry what the VM held when the trial's    *)
(* run was called.                                                         *)
(***************************************************************************)
Tried == tlog.trial.strategy # "none"

\* C16: every trial of a candidate starts on a VM whose operand stack, call
\* stack and program-frame stack are empty and whose ip is 0.
C16_TrialsStartClean ==
    Tried => /\ tlog.trial.entry.stack = <<>>
             /\ tlog.trial.entry.call_stack = <<>>
             /\ tlog.trial.entry.program_stack = <<>>
             /\ tlog.trial.entry.ip = 0

\* synthesize has returned a program
ReturnedProgram == tpc = "returned" /\ result.some

\* the logic of the successful trial without its trailing Halt
SuccessfulLogic ==
    IF tlog.trial.logic # <<>> /\ Top(tlog.trial.logic) = NumOf(OpHalt)
    THEN Pop(tlog.trial.logic) ELSE tlog.trial.logic

\* the VM after running prog from cleared stacks and ip = 0
FromCleared(prog) ==
    run([Held EXCEPT !.program = prog, !.stack = <<>>, !.call_stack = <<>>,
                     !.program_stack = <<>>, !.ip = 0], TRIAL_CYCLES, <<>>)

\* C17: a program returned by synthesize is the input preamble, one skill id
\* and Halt; the id is defined with the successful logic as its body; and run
\* from cleared stacks and ip = 0 the program halts with the expected stack.
C17_ReturnedProgramSolves ==
    ReturnedProgram =>
        /\ \E id \in DOMAIN skills :
              /\ id >= SKILL_OPCODE_BASE
              /\ result.program = Preamble(synth.input) \o <<NumOf(id), NumOf(OpHalt)>>
              /\ skills[id] = SuccessfulLogic
        /\ FromCleared(result.program).exit = "halt"
        /\ FromCleared(result.program).stack = synth.expected

\* C18: one synthesize call executes at most attempts_limit candidate trials,
\* whatever max_program_len is.
C18_TrialsWithinAttemptsLimit == tlog.trials <= synth.attempts_limit

\* the call is over: it has returned a program or absent, or it has panicked
CallOver == tpc \in {"returned", "panicked"}

\* C19: every synthesize call terminates, also when every id
\* generate_random_id can draw is registered.  A call that returns a program
\* or absent is over, and so is, for this property, one that panics.
C19_SynthesizeTerminates == Searching ~> CallOver

\* f is below g, as exact quotients
Below(f, g) == f.num * g.den < g.num * f.den

\* best_program is present exactly when best_fitness is above 0, and it is a
\* candidate some trial of the call scored best_fitness for
BestIsScored ==
    /\ synth.best_program.some <=> Below(ZeroFitness, synth.best_fitness)
    /\ synth.best_program.some =>
          <<synth.best_program.program, synth.best_fitness>> \in tlog.scored

\* an iteration of one call never lowers best_fitness
BestNeverLowered ==
    tlog'.calls = tlog.calls => ~Below(synth'.best_fitness, synth.best_fitness)

\* C20: within one synthesize call best_fitness never decreases from one
\* attempt to the next; best_program is present exactly when best_fitness is
\* above 0, and is then a program whose trial scored exactly best_fitness.
C20_FitnessMonotone == [](~synth.best_fitness.nan /\ BestIsScored) /\ [][BestNeverLowered]_vars

\* a trial has scored below the best of an earlier one, which is kept
C20_Witness ==
    /\ tlog.trials >= 2
    /\ synth.best_program.some
    /\ synth.best_program.program # tlog.trial.program
    /\ Below(ZeroFitness, tlog.trial.fitness)
    /\ Below(tlog.trial.fitness, synth.best_fitness)

(***************************************************************************)
(* calculate_fitness.  After Score, tlog.trial holds the final stack that  *)
(* was scored and its fitness, goal.expected the sequence it was scored    *)
(* against.                                                                *)
(***************************************************************************)
FitnessScored == tlog.trial.strategy = "scored"

\* the similarity of one position: 1/(1+|a-b|) for two Numbers, 1 for two
\* equal values that are no Numbers, 0 for any other pair
Similarity(got, want) ==
    IF got.t = "Number" /\ want.t = "Number"
    THEN Quotient(1, 1 + Round(FAbs(FSub(got.n, want.n))))
    ELSE IF got.t # "Number" /\ want.t # "Number" /\ UValEq(got, want)
    THEN Quotient(1, 1)
    ELSE Quotient(0, 1)

RECURSIVE SumSimilarities(_, _)
SumSimilarities(res, expected) ==
    IF res = <<>> THEN Quotient(0, 1)
    ELSE LET rest == SumSimilarities(Pop(res), Pop(expected))
             term == Similarity(Top(res), Top(expected))
         IN  Quotient(rest.num * term.den + term.num * rest.den, rest.den * term.den)

\* the mean similarity over the positions, 0 when the lengths differ
MeanSimilarity(res, expected) ==
    IF Len(res) # Len(expected) THEN Quotient(0, 1)
    ELSE IF res = <<>> THEN Quotient(1, 1)
    ELSE LET sum == SumSimilarities(res, expected)
         IN  Quotient(sum.num, sum.den * Len(res))

SameQuotient(f, g) == ~f.nan /\ ~g.nan /\ f.num * g.den = g.num * f.den

\* C21: the fitness of a result is 0 when its length differs from the
\* expected one, and else the mean over the positions of 1/(1+|a-b|) for
\* Number pairs, 1 for equal non-Number values and 0 for a mismatch; so it
\* lies in [0, 1] and is 1 exactly when result and expected are equal.
C21_FitnessIsMeanSimilarity ==
    FitnessScored =>
        /\ SameQuotient(tlog.trial.fitness,
                        MeanSimilarity(tlog.trial.result, goal.expected))
        /\ ~Below(tlog.trial.fitness, ZeroFitness)
        /\ ~Below(Quotient(1, 1), tlog.trial.fitness)
        /\ SameQuotient(tlog.trial.fitness, Quotient(1, 1))
              <=> tlog.trial.result = goal.expected

\* the worker has drained its channel: it waits in recv and nothing is queued
Drained == worker.pc = "recv" /\ channel = <<>>

RECURSIVE PositiveSum(_, _)
PositiveSum(w, edges) ==
    IF edges = {} THEN 0
    ELSE LET edge == CHOOSE e \in edges : TRUE
         IN  Max(0, w[edge]) + PositiveSum(w, edges \ {edge})

\* C22: whenever the worker has drained its channel, the positive outgoing
\* weights of every source sum to at most NORMALIZATION_CAP, up to the rounding
\* of one weight per edge.
C22_PlasticityBound ==
    Drained =>
        \A from \in Sources(weights) :
            PositiveSum(weights, Outgoing(weights, from))
                <= NORMALIZATION_CAP + Cardinality(Outgoing(weights, from))


\* the events sent and not yet processed: those of the message the worker is
\* working on, then those in the channel
InFlight ==
    [i \in 1..Len(worker.batch) |-> worker.batch[i].event]
    \o Flatten([i \in 1..Len(channel) |-> channel[i].events])

\* C23: the events the worker has processed, followed by those still on their
\* way, are the events sent, in the order sent: none is lost, duplicated or
\* reordered, within a batch or between messages.
C23_EventsInOrder == plog.delivered \o InFlight = Flatten(sent)

\* a batch and a later single event have both been processed
C23_Witness ==
    /\ Len(sent) = 2
    /\ Len(sent[1]) > 1
    /\ Len(sent[2]) = 1
    /\ Len(plog.delivered) = Len(sent[1]) + 1


\* the store the worker leaves when it releases the lock it took for one event
WholeUpdate ==
    normalize_all(apply_updates(worker.held, worker.planned), worker.normalize_sources)

\* under the worker's lock the store is the one it locked or that one with all
\* the event's deltas added, and no call of the main thread fell in between
NothingTorn ==
    /\ ~plog.torn
    /\ worker.pc = "locked" <=> write_locked
    /\ worker.pc = "locked" =>
           weights \in {worker.held, apply_updates(worker.held, worker.planned)}

\* the step in which the worker releases the lock
Releases == write_locked /\ ~write_locked' /\ worker'.pc # "killed"

\* C24: for each event the worker applies all deltas and the normalisation
\* under one acquisition of the write lock: what it releases is the locked
\* store with the whole update applied, and no reader or other writer
\* (decay_long_term, imprinting, load_from_file, best_next_event, save_to_file)
\* reads or writes the store in between.
C24_UpdatesAreAtomic ==
    []NothingTorn /\ [][Releases => weights' = WholeUpdate]_vars

\* the worker is in the middle of an update, after a reader has read the store
C24_Witness == MidUpdate /\ plog.best # NoEvent /\ worker.normalize_sources # {}


\* the worker thread runs no more
WorkerOver == worker.pc \in {"terminated", "killed"}

\* C25: the worker stops only once every handle is dropped, and then only
\* after it has processed every message that was sent.
C25_WorkerServesUntilClosed ==
    WorkerOver => (senders = 0 /\ plog.delivered = Flatten(sent))


\* two finite addresses name the same cell when their quantised keys are equal
SameCell(a, b) == is_finite(a) /\ is_finite(b) /\ quantize(a).key = quantize(b).key

\* the value of the last write to the cell of address a, absent when there was
\* none and for a non-finite a
RECURSIVE LastWritten(_, _)
LastWritten(written, a) ==
    IF written = <<>> THEN [some |-> FALSE, val |-> Nil]
    ELSE IF SameCell(written[Len(written)].addr, a)
    THEN [some |-> TRUE, val |-> written[Len(written)].val]
    ELSE LastWritten(SubSeq(written, 1, Len(written) - 1), a)

\* C26: a write to a finite address returns true, the cell then reads as the
\* value written and the cells of other keys are as before; a write to a
\* non-finite address returns false and changes nothing; a read returns the
\* last value written to the cell, and absent for a non-finite address.
C26_MemoryRoundTrip ==
    /\ mlog.op = "write" /\ is_finite(mlog.addr) =>
           /\ mlog.ok
           /\ memory_read(memory, mlog.addr) = [some |-> TRUE, val |-> mlog.val]
           /\ \A b \in Addresses :
                  ~SameCell(b, mlog.addr) =>
                      memory_read(memory, b) = memory_read(mlog.before, b)
    /\ mlog.op = "write" /\ ~is_finite(mlog.addr) =>
           ~mlog.ok /\ memory = mlog.before
    /\ mlog.op = "read" =>
           /\ memory = mlog.before
           /\ mlog.read = LastWritten(mlog.written, mlog.addr)
           /\ ~is_finite(mlog.addr) => ~mlog.read.some

\* a cell written twice, another cell written in between or rejected, is read
C26_Witness ==
    /\ mlog.op = "read"
    /\ mlog.read.some
    /\ Len(mlog.written) = 2
    /\ mlog.written[1].val # mlog.written[2].val
    /\ SameCell(mlog.written[1].addr, mlog.written[2].addr)


\* the (from, to, weight) triples of a store, and those of a file
Triples(w) == {[from |-> edge[1], to |-> edge[2], weight |-> w[edge]] : edge \in DOMAIN w}
Written(f) == {f.entries[i] : i \in 1..Len(f.entries)}
Loadable(f) == f.present /\ f.intact

PassGate(meta, ctx, candidates) ==
    {id \in candidates :
        pattern_match(ctx, ensure_skill_known(meta, id)[id]) >= GateThreshold300}

\* what select_skill returned in the Intuition step just taken (0 for absent)
Picked == runlog.picks[Len(runlog.picks)]

\* C28: in every Intuition step, select_skill returns absent or a candidate
\* whose pattern match is at least gate_threshold, and absent when no candidate
\* passes the gate; when it returns absent the opcode changes neither the
\* operand stack, the program, the frame stack nor the call stack, and ip is
\* left at the cell after the opcode, where the fetch put it.
C28_IntuitionGate ==
    [][Intuition =>
          LET passing == PassGate(skill_meta, build_context(stack, recent_opcodes),
                                  DOMAIN skills)
          IN  /\ Picked' = 0 \/ Picked' \in passing
              /\ passing = {} => Picked' = 0
              /\ Picked' = 0 =>
                     /\ stack' = stack
                     /\ program' = program
                     /\ program_stack' = program_stack
                     /\ call_stack' = call_stack
                     /\ ip' = ip + 1]_vars

\* Intuition has just found no candidate passing the gate, in a library that
\* is not empty
C28_Witness ==
    /\ Executed(OpIntuition)
    /\ Picked = 0
    /\ skills # EmptyLibrary
    /\ PassGate(skill_meta, build_context(stack, <<>>), DOMAIN skills) = {}


\* f64::min and f64::max: the other operand when one is NaN
f64_min(a, b) == IF a.k = "nan" THEN b ELSE IF b.k = "nan" THEN a
                 ELSE IF FLess(b, a) THEN b ELSE a
f64_max(a, b) == IF a.k = "nan" THEN b ELSE IF b.k = "nan" THEN a
                 ELSE IF FLess(a, b) THEN b ELSE a

\* the first run of the template has returned
FirstRunOver == runs = 1 /\ pc = "returned"
FirstA == at_start.stack[1].n
FirstB == at_start.stack[2].n
SortedPair ==
    /\ exit = "halt"
    /\ error_count = 0
    /\ ErrorsIn(recorded) = {}
    /\ stack = <<Number(f64_min(FirstA, FirstB)), Number(f64_max(FirstA, FirstB))>>

\* C29 as stated: for all numbers a and b the template on [a, b] halts with no
\* Error event and the final stack [min(a, b), max(a, b)].
C29_CompareSwapSorts == FirstRunOver => SortedPair

\* C29: for all numbers a and b neither of which is NaN, the template on
\* [a, b] halts with no Error event and the final stack [min(a, b), max(a, b)].
C29_CompareSwapSortsOrdered ==
    (FirstRunOver /\ FirstA.k # "nan" /\ FirstB.k # "nan") => SortedPair

\* the template has swapped an infinity below a finite number
C29_Witness ==
    /\ FirstRunOver
    /\ Executed(OpHalt)
    /\ FirstA = PInf
    /\ FirstB = NumOf(9)
    /\ stack = <<Number(NumOf(9)), Number(PInf)>>


StatOf(meta, id, field) == IF id \in DOMAIN meta THEN meta[id][field] ELSE 0
ErrorsRecorded == Cardinality(ErrorsIn(recorded))

\* this step restores the frame of an invocation of skill id
Completes(id) ==
    /\ program_stack # <<>>
    /\ last'.act = "restore" \/ (last'.act = "primitive" /\ last'.op = OpHalt)
    /\ Top(program_stack).skill_invocation.some
    /\ Top(program_stack).skill_invocation.skill_id = id

\* no Error event has been recorded since the top frame was pushed
NoErrorSincePush == Top(program_stack).skill_invocation.errors_before = ErrorsRecorded

StatsBalanced ==
    /\ error_count = ErrorsRecorded
    /\ \A id \in DOMAIN skill_meta :
          /\ skill_meta[id].attempts = skill_meta[id].successes + skill_meta[id].failures
    /\ \A i \in 1..Len(program_stack) :
          /\ program_stack[i].skill_invocation.some
          /\ program_stack[i].skill_invocation.errors_before <= ErrorsRecorded

Bit(b) == IF b THEN 1 ELSE 0

\* C30: every step that restores the frame of a skill invocation (macro Halt or
\* run-off-end) adds one to the attempts of that skill, and one to its
\* successes if no Error event was recorded since the frame was pushed, else
\* one to its failures; no other step changes these counts; a pushed frame
\* notes the number of Error events recorded so far, is not changed while it
\* is on the frame stack and leaves it only in such a step; so attempts = successes + failures throughout.
C30_SkillStatistics ==
    /\ []StatsBalanced
    /\ [][\A id \in DOMAIN skills \cup DOMAIN skill_meta \cup DOMAIN skill_meta' :
             /\ StatOf(skill_meta', id, "attempts")
                  = StatOf(skill_meta, id, "attempts") + Bit(Completes(id))
             /\ StatOf(skill_meta', id, "successes")
                  = StatOf(skill_meta, id, "successes")
                    + Bit(Completes(id) /\ NoErrorSincePush)
             /\ StatOf(skill_meta', id, "failures")
                  = StatOf(skill_meta, id, "failures")
                    + Bit(Completes(id) /\ ~NoErrorSincePush)]_vars
    /\ [][/\ Len(program_stack') <= Len(program_stack) + 1
          /\ Len(program_stack') >= Len(program_stack) - 1
          /\ \A i \in 1..Min(Len(program_stack), Len(program_stack')) :
                program_stack'[i] = program_stack[i]
          /\ Len(program_stack') > Len(program_stack) =>
                Top(program_stack').skill_invocation.errors_before = ErrorsRecorded'
          /\ Len(program_stack') < Len(program_stack) =>
                Completes(Top(program_stack).skill_invocation.skill_id)]_vars

\* skill 1007 has just been counted as a failure for the underflow inside the
\* nested 1000, which was counted as a failure itself, after the nested 1001
\* was counted as a success
C30_Witness ==
    /\ Executed(OpHalt)
    /\ Len(Before.program_stack) = 1
    /\ Top(Before.program_stack).skill_invocation.skill_id = 1007
    /\ StatOf(skill_meta, 1007, "failures") = 1
    /\ StatOf(skill_meta, 1000, "failures") = 1
    /\ StatOf(skill_meta, 1001, "successes") = 1


\* the signed sum of the outgoing weights of from
OutgoingSum(w, from) == SumWeights(w, Outgoing(w, from))

\* C31: when the worker finishes an event, every source it marked has a signed
\* outgoing sum of at most NORMALIZATION_CAP; a marked source whose sum S
\* exceeded the cap has every outgoing weight multiplied by
\* NORMALIZATION_CAP / S; no other weight is changed by the normalisation.
C31_NormalizationCaps ==
    [][NormalizeAndRelease =>
          /\ \A from \in worker.normalize_sources :
                OutgoingSum(weights', from) <= NORMALIZATION_CAP
          /\ DOMAIN weights' = DOMAIN weights
          /\ \A e \in DOMAIN weights :
                LET S == OutgoingSum(weights, e[1])
                IN  weights'[e] =
                       IF e[1] \in worker.normalize_sources /\ S > NORMALIZATION_CAP
                       THEN RoundDiv(weights[e] * NORMALIZATION_CAP, S)
                       ELSE weights[e]]_vars


\* the scaling of C31 alone: the weights of a marked source whose sum S exceeded
\* the cap are multiplied by NORMALIZATION_CAP / S and no other weight changes
ScalesMarkedOnly ==
    [][NormalizeAndRelease =>
          /\ DOMAIN weights' = DOMAIN weights
          /\ \A e \in DOMAIN weights :
                LET S == OutgoingSum(weights, e[1])
                IN  weights'[e] =
                       IF e[1] \in worker.normalize_sources /\ S > NORMALIZATION_CAP
                       THEN RoundDiv(weights[e] * NORMALIZATION_CAP, S)
                       ELSE weights[e]]_vars


\* the event the worker is about to process, and the buffered events that are
\* paired with it: 0 < dt < WINDOW_S
Cur == Head(worker.batch)
Paired ==
    {j \in 1..Len(recent_events) :
        LET dt == duration_since(Cur.time, recent_events[j].time)
        IN  dt > 0 /\ dt < WINDOW}
Rank(j) == Cardinality({i \in Paired : i <= j})
PerPair(e) ==
    IF e.ev = "Reward" THEN (IF e.arg > 0 THEN 1 ELSE 0)
    ELSE IF e.ev = "Error" THEN 1 ELSE 2

WeightOf(w, edge) == IF edge \in DOMAIN w THEN w[edge] ELSE 0
RECURSIVE SumDeltas(_, _)
SumDeltas(updates, edge) ==
    IF updates = <<>> THEN 0
    ELSE (IF <<Head(updates).from, Head(updates).to>> = edge THEN Head(updates).delta ELSE 0)
         + SumDeltas(Tail(updates), edge)
Touched(updates) == {<<updates[i].from, updates[i].to>> : i \in 1..Len(updates)}

\* the updates the worker has planned are those of the paired events, in the
\* order of the buffer
PlansThePairs(planned) ==
    LET e == Cur.event
        k == PerPair(e)
    IN  /\ Len(planned) = k * Cardinality(Paired)
        /\ \A j \in Paired :
              LET p == recent_events[j].event
                  first == planned[k * (Rank(j) - 1) + 1]
                  second == planned[k * (Rank(j) - 1) + 2]
              IN  /\ k >= 1 =>
                        /\ first.from = p /\ first.to = e
                        /\ IF e.ev = "Error" THEN first.delta < 0 ELSE first.delta > 0
                  /\ k = 2 =>
                        /\ second.from = e /\ second.to = p
                        /\ second.delta < 0

\* C32 as stated: for every paired past event p, edge p->e has increased when
\* the updates are applied (decreased when e is an Error), edge e->p has
\* decreased unless e is a Reward(i) with i > 0 or an Error, and every event
\* that is neither gets the LTP and LTD updates.
C32_StdpDirection ==
    /\ [][Collect /\ Paired # {} /\ ~(Cur.event.ev = "Reward" /\ Cur.event.arg > 0)
             => worker'.pc = "locked"]_vars
    /\ [][ApplyUpdates =>
             \A i \in 1..Len(worker.planned) :
                LET u == worker.planned[i]
                    edge == <<u.from, u.to>>
                IN  IF u.delta > 0
                    THEN WeightOf(weights', edge) > WeightOf(weights, edge)
                    ELSE WeightOf(weights', edge) < WeightOf(weights, edge)]_vars

\* C32: for each buffered past event p with 0 < dt < WINDOW_S, in buffer order,
\* the worker plans one positive update of p->e when e is Reward(i) with i > 0,
\* one negative update of p->e when e is an Error, none when e is Reward(0),
\* and otherwise a positive update of p->e followed by a negative update of
\* e->p; it plans nothing else; applying the updates adds to each edge the sum
\* of its planned deltas (both of them on e->e when p and e are the same
\* event) and changes no other edge; without a planned update the store is
\* not touched.
C32_StdpUpdates ==
    /\ [][Collect =>
             /\ weights' = weights
             /\ IF worker'.pc = "locked"
                THEN PlansThePairs(worker'.planned) /\ worker'.planned # <<>>
                ELSE PerPair(Cur.event) * Cardinality(Paired) = 0]_vars
    /\ [][ApplyUpdates =>
             /\ DOMAIN weights' = DOMAIN weights \cup Touched(worker.planned)
             /\ \A edge \in DOMAIN weights' :
                   weights'[edge] = WeightOf(weights, edge) + SumDeltas(worker.planned, edge)]_vars

\* the worker has applied the LTP and the LTD update of a pair of equal events
\* to the one edge e->e, and a Reward(0) has been processed
C32_Witness ==
    /\ worker.pc = "locked"
    /\ worker.updates = <<>>
    /\ \E i, j \in 1..Len(worker.planned) :
          /\ i < j
          /\ worker.planned[i].from = worker.planned[i].to
          /\ worker.planned[j].from = worker.planned[j].to
          /\ weights[<<worker.current.event, worker.current.event>>]
               < WeightOf(worker.held, <<worker.current.event, worker.current.event>>)
    /\ \E n \in 1..Len(plog.delivered) : plog.delivered[n] = Reward(0)


\* the batch the worker takes from the channel in this step
Received == recv(channel).message
TakesBatch == Recv /\ Received.kind = "Batch" /\ Received.events # <<>>

\* C33: the worker gives the n events of a batch timestamps with the spacing
\* WINDOW_S / max(1, n - 1), oldest first, so that the first and the last are
\* WINDOW_S apart and the timestamps strictly increase with the position.
C33_BatchSpreadsOverWindow ==
    [][TakesBatch =>
          LET n == Len(Received.events)
              given == worker'.batch
          IN  /\ Len(given) = n
              /\ \A i \in 1..n : given[i].event = Received.events[i]
              /\ \A i \in 1..(n - 1) :
                    given[i + 1].time - given[i].time = WINDOW \div Max(1, n - 1)
              /\ n > 1 => given[n].time - given[1].time = WINDOW]_vars

\* what the worker does: the spacing is WINDOW_S / n, the last event is stamped
\* with the time of the receipt and the first (n - 1) * WINDOW_S / n earlier
BatchSpacing ==
    [][TakesBatch =>
          LET n == Len(Received.events)
              given == worker'.batch
          IN  /\ Len(given) = n
              /\ \A i \in 1..n : given[i].event = Received.events[i]
              /\ \A i \in 1..(n - 1) : given[i + 1].time - given[i].time = WINDOW \div n
              /\ given[n].time = clock'
              /\ given[n].time - given[1].time < WINDOW]_vars


\* the opcode just executed read a jump target: Jmp, Call, or a JmpIf whose
\* condition was truthy
ReadTarget ==
    /\ last.act = "primitive"
    /\ ImmediatePresent
    /\ \/ last.op \in {OpJmp, OpCall}
       \/ last.op = OpJmpIf /\ Before.stack # <<>> /\ is_truthy(Top(Before.stack))
Target == Before.program[Before.ip + 2]

JumpRefused ==
    /\ Cardinality(ErrorsIn(StepEvents)) = 1
    /\ \E i \in ErrorsIn(StepEvents) : StepEvents[i].kind = "InvalidJump"
    /\ error_count = Before.error_count + 1
    /\ ip = Before.ip + 2
    /\ call_stack = Before.call_stack

JumpTaken(new_ip) ==
    /\ ErrorsIn(StepEvents) = {}
    /\ ip = new_ip
    /\ call_stack = IF last.op = OpCall THEN Append(Before.call_stack, Before.ip + 2)
                    ELSE Before.call_stack

Returns ==
    Executed(OpRet) =>
        IF Before.call_stack # <<>>
        THEN /\ ip = Top(Before.call_stack)
             /\ call_stack = Pop(Before.call_stack)
             /\ ErrorsIn(StepEvents) = {}
        ELSE /\ Cardinality(ErrorsIn(StepEvents)) = 1
             /\ \E i \in ErrorsIn(StepEvents) : StepEvents[i] = Error(ReturnStackUnderflow)
             /\ ip = Before.ip + 1
             /\ call_stack = <<>>

\* C34 as stated: a target that is non-finite, negative or not less than the
\* length of the program records exactly one Error(InvalidJump), leaves ip
\* after the immediate and pushes nothing; any other target becomes ip, and
\* Call pushes the index of the cell after its immediate; Ret resumes at the
\* last pushed index, and on an empty call stack records ReturnStackUnderflow
\* and leaves ip alone.
C34_JumpValidation ==
    /\ ReadTarget =>
          IF \/ ~is_finite(Target)
             \/ FLess(Target, NumOf(0))
             \/ ~FLess(Target, NumOf(Len(Before.program)))
          THEN JumpRefused
          ELSE JumpTaken(Target.w) /\ Target = NumOf(ip)
    /\ Returns

\* C34: a target that is non-finite, negative, or whose rounding to the nearest
\* integer is not less than the length of the program records exactly one
\* Error(InvalidJump), leaves ip after the immediate and pushes nothing; any
\* other target sets ip to the rounded target, and Call pushes the index of
\* the cell after its immediate; Ret resumes at the last pushed index, and on
\* an empty call stack records ReturnStackUnderflow and leaves ip alone.
C34_JumpValidationRounded ==
    /\ ReadTarget =>
          IF \/ ~is_finite(Target)
             \/ FLess(Target, NumOf(0))
             \/ Round(Target) >= Len(Before.program)
          THEN JumpRefused
          ELSE JumpTaken(Round(Target))
    /\ Returns

\* the inner Ret of two nested calls has resumed after the inner Call
NestedReturn ==
    /\ Executed(OpRet)
    /\ Before.call_stack = <<2, 5>>
    /\ ip = 5
    /\ call_stack = <<2>>

\* a jump to 2.5 in a program of three cells has been refused
C34_Witness ==
    /\ Executed(OpJmp)
    /\ ImmediatePresent
    /\ Target = Fin(2, Half)
    /\ Len(Before.program) = 3
    /\ JumpRefused


\* C35: the worker processes the events in channel order with timestamps that
\* never go back: no event is processed with a timestamp earlier than that of
\* an event processed before it (the buffer holds the events processed within
\* the last window, in the order of processing, with their timestamps).
C35_TimestampsMonotone ==
    /\ \A i \in 1..Len(recent_events), j \in 1..Len(recent_events) :
          i < j => recent_events[i].time <= recent_events[j].time
    /\ worker.pc = "event" =>
          \A j \in 1..Len(recent_events) : recent_events[j].time <= Cur.time

\* a Reward sent after a batch is being processed with the producer's
\* timestamp, which is earlier than the one the worker gave the end of the
\* batch, and changes no weight
RewardBeforeItsTrial ==
    /\ worker.pc = "event"
    /\ Cur.event = Reward(100)
    /\ recent_events # <<>>
    /\ Cur.time < recent_events[Len(recent_events)].time
    /\ collect_updates(retain(recent_events, Cur.time), Cur.event, Cur.time) = <<>>


\* the candidates in some order, and with a listed first
RECURSIVE Listed(_)
Listed(ids) ==
    IF ids = {} THEN <<>>
    ELSE LET id == CHOOSE x \in ids : TRUE IN <<id>> \o Listed(ids \ {id})
ListedFirst(ids, a) == <<a>> \o Listed(ids \ {a})

\* select_skill in deterministic mode on the candidates in the order given:
\* the stable sort by descending score keeps candidates of equal score in the
\* order of the list, and the first is returned (0 for absent)
select_skill_deterministic(meta, ctx, order, now) ==
    LET ids == {order[i] : i \in 1..Len(order)}
        best == SelectableSkills(meta, TRUE, ctx, ids, now)
    IN  IF best = {} THEN 0
        ELSE order[CHOOSE i \in 1..Len(order) :
                      /\ order[i] \in best
                      /\ \A j \in 1..(i - 1) : order[j] \notin best]

\* C36: in deterministic mode the id select_skill returns for the Intuition
\* opcode is the same whatever the order in which the candidates are listed,
\* and what the opcode draws is that id.
C36_DeterministicSelection ==
    [][(last'.act = "primitive" /\ last'.op = OpIntuition /\ deterministic_mode) =>
          LET meta == EnsureAll(skill_meta, DOMAIN skills)
              ctx == build_context(stack, recent_opcodes)
          IN  \A a \in DOMAIN skills, b \in DOMAIN skills :
                 /\ select_skill_deterministic(meta, ctx, ListedFirst(DOMAIN skills, a), tick + 1)
                      = select_skill_deterministic(meta, ctx, ListedFirst(DOMAIN skills, b),
                                                   tick + 1)
                 /\ Picked' = select_skill_deterministic(meta, ctx,
                                  ListedFirst(DOMAIN skills, a), tick + 1)]_vars

\* what holds of the deterministic mode: the id drawn is absent or a candidate
\* that passes the gate and has the largest score among those that do
DrawsAMaximum ==
    [][(last'.act = "primitive" /\ last'.op = OpIntuition /\ deterministic_mode) =>
          LET meta == EnsureAll(skill_meta, DOMAIN skills)
              ctx == build_context(stack, recent_opcodes)
              scored == Scored(meta, ctx, DOMAIN skills, tick + 1)
          IN  IF scored = {} THEN Picked' = 0
              ELSE /\ Picked' \in scored
                   /\ \A o \in scored :
                         ScoreOf(meta, ctx, o, tick + 1) <= ScoreOf(meta, ctx, Picked', tick + 1)]_vars


\* the Trainer's step leaves every registered skill as it was, and each id
\* it adds is one generate_random_id can draw, was not registered and holds a
\* body that no skill registered before the step (or added by it under
\* another id) has: a logic with an exact match is never stored again
KeepsSkills ==
    /\ \A id \in DOMAIN skills : id \in DOMAIN skills' /\ skills'[id] = skills[id]
    /\ \A id \in DOMAIN skills' \ DOMAIN skills :
          /\ id \in IdRange
          /\ \A k \in DOMAIN skills' \ {id} : skills'[k] # skills'[id]

\* the program synthesize returns for a solved goal with a non-empty logic
\* ends with the id under which that logic is registered, and Halt
ReturnsRegistered ==
    (tpc = "searching" /\ tpc' = "returned" /\ result'.some) =>
        LET logic == tlog'.trial.logic
            clean_logic == IF logic # <<>> /\ Top(logic) = NumOf(OpHalt)
                           THEN Pop(logic) ELSE logic
            prog == result'.program
        IN  clean_logic # <<>> =>
               /\ Len(prog) >= 2
               /\ \E id \in DOMAIN skills' :
                     prog[Len(prog) - 1] = NumOf(id) /\ skills'[id] = clean_logic

NoEvolveIn(lib) ==
    \A id \in DOMAIN lib : \A i \in 1..Len(lib[id]) : lib[id][i] # NumOf(OpEvolve)

FoundAgain ==
    /\ tlog.trial.strategy = "INVENT"
    /\ tlog.trials >= 2
    /\ Cardinality(DOMAIN skills) = 1

\* a trial has run a skill whose Evolve replaced the body of another
Replaced == 2005 \in DOMAIN skills /\ skills[2005] = TwiceEvolved


(***************************************************************************)
(* hypothesis.rs: the Pruner.  prune walks a logic once and drops every    *)
(* instruction without which the rest still validates; validates runs the  *)
(* logic in a VM of its own, built from the skills and memory of base_vm.  *)
(***************************************************************************)
MaxLogicLen == 4        \* length of the logics pruned
PRUNE_FUEL == 5000      \* the budget validates passes to run

PruneOps == {OpInc, OpDec, OpNot, OpHalt}

\* Vec::remove(index), index counted from 0
remove(logic, index) == SubSeq(logic, 1, index) \o SubSeq(logic, index + 2, Len(logic))

\* validates: the stack a VM with base_vm's skills and memory ends with, run
\* on the input with the logic (and a Halt, unless it ends with one) as its
\* program, is the expected one
validates(base_vm, logic, input, expected) ==
    LET halted == IF logic # <<>> /\ Top(logic) = NumOf(OpHalt) THEN logic
                  ELSE Append(logic, NumOf(OpHalt))
        \* SoulGainVM::new(Vec::new()) with the skills and memory of base_vm
        test_vm == [program |-> halted, stack |-> input, call_stack |-> <<>>,
                    program_stack |-> <<>>, ip |-> 0, memory |-> base_vm.memory,
                    skills |-> base_vm.skills,
                    skill_meta |-> [k \in {} |-> DefaultMeta(0)],
                    last_event |-> NoEvent, trace |-> <<>>, recent_opcodes |-> <<>>,
                    tick |-> 0, total_reward |-> 0, error_count |-> 0, sent |-> <<>>,
                    recorded |-> <<>>, cycles |-> 0, cont |-> TRUE, exit |-> "none"]
        ended == run(test_vm, PRUNE_FUEL, <<>>)
    IN  /\ Len(ended.stack) = Len(expected)
        /\ \A k \in 1..Len(expected) : UValEq(ended.stack[k], expected[k])

\* the locals of prune
original_logic == tlog.trial.logic
best_logic == result.program
prune_index == attempts

PruneInit ==
    \E logic \in SeqsUpTo({NumOf(op) : op \in PruneOps}, MaxLogicLen),
       expected \in {Numbers(<<1>>), Numbers(<<2>>)} :
        /\ NewVM(Scenario(<<>>, <<>>, EmptyLibrary, FALSE))
        /\ max_program_len = 0
        /\ goal = Goal(Numbers(<<1>>), expected)
        /\ synth = NoSynth
        /\ tpc = "pruning"
        /\ result = Some(logic)
        /\ drawn = 0
        /\ attempts = 0
        /\ tlog = [EmptyLog EXCEPT !.trial.logic = logic]

Pruning == tpc = "pruning" /\ prune_index < Len(best_logic) /\ Len(best_logic) > 1

PruneStep(best, index, where) ==
    /\ result' = Some(best)
    /\ attempts' = index
    /\ tpc' = where
    /\ UNCHANGED <<program, stack, call_stack, program_stack, ip, memory, skills,
                   skill_meta, deterministic_mode, last_event, trace, recent_opcodes,
                   tick, total_reward, error_count, sent, pc, cycles, max_cycles,
                   exit, runs, recorded, at_start, last, origin, runlog>>
    /\ UNCHANGED <<max_program_len, goal, synth, drawn, tlog>>
    /\ UNCHANGED <<pvars, mlog>>

\* the candidate validates: it becomes best_logic and i stays
PruneRemove ==
    /\ Pruning
    /\ validates(Self, remove(best_logic, prune_index), goal.input, goal.expected)
    /\ PruneStep(remove(best_logic, prune_index), prune_index, "pruning")

\* it does not: i += 1
PruneKeep ==
    /\ Pruning
    /\ ~validates(Self, remove(best_logic, prune_index), goal.input, goal.expected)
    /\ PruneStep(best_logic, prune_index + 1, "pruning")

\* the loop ends and prune returns best_logic
PruneReturn ==
    /\ tpc = "pruning"
    /\ ~Pruning
    /\ PruneStep(best_logic, prune_index, "pruned")

PruneNext == PruneRemove \/ PruneKeep \/ PruneReturn

PruneSpec == PruneInit /\ [][PruneNext]_vars

\* the cells of a logic at the positions kept, in their order
RECURSIVE Keep(_, _)
Keep(logic, kept) ==
    IF logic = <<>> THEN <<>>
    ELSE LET rest == Keep(SubSeq(logic, 1, Len(logic) - 1), kept)
         IN  IF Len(logic) \in kept THEN Append(rest, logic[Len(logic)]) ELSE rest

\* the non-empty subsequences of a logic
Subsequences(logic) ==
    {Keep(logic, kept) : kept \in (SUBSET (1..Len(logic))) \ {{}}}

Valid(logic) == validates(Self, logic, goal.input, goal.expected)

\* C38: for a non-empty logic that produces exactly the expected stack,
\* prune returns a non-empty subsequence of it that produces exactly the
\* expected stack too, from which no instruction can be removed without
\* losing that, and than which no subsequence of the logic that produces the
\* expected stack is shorter.
C38_PruneShortest ==
    (tpc = "pruned" /\ original_logic # <<>> /\ Valid(original_logic)) =>
        /\ best_logic \in Subsequences(original_logic)
        /\ Valid(best_logic)
        /\ \A index \in 0..(Len(best_logic) - 1) :
              Len(best_logic) > 1 => ~Valid(remove(best_logic, index))
        /\ \A shorter \in Subsequences(original_logic) :
              Len(shorter) < Len(best_logic) => ~Valid(shorter)

\* what holds of prune: the result is a subsequence of the logic, empty only
\* if the logic is, and it produces the expected stack if the logic does
PruneKeepsValidity ==
    tpc = "pruned" =>
        /\ best_logic = original_logic \/ best_logic \in Subsequences(original_logic)
        /\ Valid(original_logic) => Valid(best_logic)

\* prune has returned a logic from which one more instruction can be removed
StillRemovable ==
    /\ tpc = "pruned" /\ Valid(original_logic) /\ Len(best_logic) > 1
    /\ \E index \in 0..(Len(best_logic) - 1) : Valid(remove(best_logic, index))

\* prune has returned a logic from which no single instruction can be
\* removed, and a shorter subsequence produces the expected stack
NotTheShortest ==
    /\ tpc = "pruned" /\ Valid(original_logic) /\ Len(best_logic) > 1
    /\ \A index \in 0..(Len(best_logic) - 1) : ~Valid(remove(best_logic, index))
    /\ \E shorter \in Subsequences(original_logic) :
          Len(shorter) < Len(best_logic) /\ Valid(shorter)

====
